---- MODULE Spec2Model ----
(***************************************************************************)
(* Query-serving pipeline of the multi-tenant document search service:     *)
(* tenant middleware, rate limiter, cache service, redis service,          *)
(* opensearch service and the /search and /documents routes.               *)
(*                                                                         *)
(* Strings are sequences of one-character strings, so that template        *)
(* literals are concatenations and key collisions can be observed.         *)
(***************************************************************************)
EXTENDS Integers, Sequences, FiniteSets, TLC

VARIABLES
    now,        \* Date.now(), epoch milliseconds
    redis,      \* the shared key-value store: key -> [val, exp]
    redisUp,    \* whether calls to the key-value store succeed
    index,      \* the search index: index id -> DocumentIndex
    indexUp,    \* whether calls to the index engine succeed
    pc,         \* per request: the await the request is suspended at
    req,        \* per request: tenant header, route and parameters
    loc,        \* per request: local variables of middleware and handler
    resp,       \* per request: the response sent
    work,       \* per request: store and index calls made on its behalf
    admitted,   \* history: requests admitted per (tenant, windowStart)
    started,    \* history: number of requests started
    config,     \* config.rateLimit and config.cache, read at start-up
    arg,        \* inputs of the pure functions under study
    ret         \* their results

vars == <<now, redis, redisUp, index, indexUp, pc, req, loc, resp, work,
          admitted, started, config, arg, ret>>

sysVars == <<now, redis, redisUp, index, indexUp, pc, req, loc, resp, work,
             admitted, started>>

-----------------------------------------------------------------------------
(* Bounds of the model *)

MaxTenantLen == 2
MaxDocIdLen == 2
NumReq == 2
MaxStarted == 3
MaxStartedSeq == 5
TickMs == 1000
MaxNow == 2000
MaxNowSeq == 4000

(* config.rateLimit and config.cache are read from the environment; the    *)
(* model runs with a small window, a small limit and short expiries.       *)
SmallWindowMs == 2000
SmallMaxRequests == 2
SmallTtlSeconds == 1
SmallSearchTtlSeconds == 2

SmallConfig == [windowMs |-> SmallWindowMs, maxRequests |-> SmallMaxRequests,
                ttlSeconds |-> SmallTtlSeconds,
                searchTtlSeconds |-> SmallSearchTtlSeconds]

-----------------------------------------------------------------------------
(* Strings *)

Undef == <<"undefined">>
Null == [null |-> TRUE]

StringsUpTo(alphabet, n) == UNION {[1..k -> alphabet] : k \in 0..n}

Digit(d) == CASE d = 0 -> "0" [] d = 1 -> "1" [] d = 2 -> "2" [] d = 3 -> "3"
              [] d = 4 -> "4" [] d = 5 -> "5" [] d = 6 -> "6" [] d = 7 -> "7"
              [] d = 8 -> "8" [] d = 9 -> "9"

DigitChars == {"0", "1", "2", "3", "4", "5", "6", "7", "8", "9"}

DigitVal(c) == CHOOSE d \in 0..9 : Digit(d) = c

\* Number.prototype.toString / template-literal interpolation of a
\* non-negative integer
RECURSIVE NumToStr(_)
NumToStr(n) == IF n < 10 THEN <<Digit(n)>>
               ELSE NumToStr(n \div 10) \o <<Digit(n % 10)>>

\* Number(s) / JSON.parse for a string of decimal digits
RECURSIVE StrToNum(_)
StrToNum(s) == IF s = <<>> THEN 0
               ELSE 10 * StrToNum(SubSeq(s, 1, Len(s) - 1)) + DigitVal(s[Len(s)])

IsDigits(s) == Len(s) >= 1 /\ \A i \in 1..Len(s) : s[i] \in DigitChars

-----------------------------------------------------------------------------
(* Tenant middleware *)

Lower == {"a", "b", "c", "d", "e", "f", "g", "h", "i", "j", "k", "l", "m",
          "n", "o", "p", "q", "r", "s", "t", "u", "v", "w", "x", "y", "z"}
Upper == {"A", "B", "C", "D", "E", "F", "G", "H", "I", "J", "K", "L", "M",
          "N", "O", "P", "Q", "R", "S", "T", "U", "V", "W", "X", "Y", "Z"}

TenantChars == Lower \cup Upper \cup DigitChars \cup {"_", "-"}

MaxTenantIdLen == 100

\* the regex without its anchors: one allowed character anywhere suffices
TenantIdSchemaUnanchored(s) ==
    /\ Len(s) >= 1
    /\ Len(s) <= 100
    /\ \E i \in 1..Len(s) : s[i] \in TenantChars

\* the schema without max(100)
TenantIdSchemaNoMax(s) ==
    /\ Len(s) >= 1
    /\ \A i \in 1..Len(s) : s[i] \in TenantChars

\* z.string().min(1).max(100).regex(/^[a-zA-Z0-9_-]+$/)
TenantIdSchema(s) ==
    /\ Len(s) >= 1
    /\ Len(s) <= MaxTenantIdLen
    /\ \A i \in 1..Len(s) : s[i] \in TenantChars

-----------------------------------------------------------------------------
(* Key derivation *)

Quote == "\""
Backslash == "\\"

\* JSON.stringify of a string: quoted, with quote and backslash escaped
RECURSIVE JsonEscape(_)
JsonEscape(s) ==
    IF s = <<>> THEN <<>>
    ELSE (IF Head(s) \in {Quote, Backslash} THEN <<Backslash, Head(s)>>
          ELSE <<Head(s)>>) \o JsonEscape(Tail(s))

JsonString(s) == <<Quote>> \o JsonEscape(s) \o <<Quote>>

\* one "name":value member; a member whose value is undefined is omitted
JsonMember(name, text) == <<JsonString(name) \o <<":">> \o text>>

JsonStringMember(name, s) ==
    IF s = Undef THEN <<>> ELSE JsonMember(name, JsonString(s))

RECURSIVE JoinComma(_)
JoinComma(ms) ==
    IF ms = <<>> THEN <<>>
    ELSE IF Len(ms) = 1 THEN ms[1]
    ELSE ms[1] \o <<",">> \o JoinComma(Tail(ms))

JsonObject(ms) == <<"{">> \o JoinComma(ms) \o <<"}">>

\* crypto.createHash('sha256').update(input).digest('hex'): the digest is
\* treated as collision free and is represented by its preimage
hashString(input) == input

\* JSON.stringify({ query, filters }) with
\* filters = { tag, author, from, to, offset, limit } in this member order
hashQuery(query, filters) ==
    hashString(JsonObject(
        JsonMember(<<"q","u","e","r","y">>, JsonString(query))
        \o JsonMember(<<"f","i","l","t","e","r","s">>, JsonObject(
              JsonStringMember(<<"t","a","g">>, filters.tag)
           \o JsonStringMember(<<"a","u","t","h","o","r">>, filters.author)
           \o JsonStringMember(<<"f","r","o","m">>, filters.from)
           \o JsonStringMember(<<"t","o">>, filters.to)
           \o JsonMember(<<"o","f","f","s","e","t">>, NumToStr(filters.offset))
           \o JsonMember(<<"l","i","m","i","t">>, NumToStr(filters.limit))))))

SearchPrefix == <<"s","e","a","r","c","h",":">>
DocPrefix == <<"d","o","c",":">>
RateLimitPrefix == <<"r","a","t","e","l","i","m","i","t",":">>

getSearchKey(tenantId, query, filters, offset, limit) ==
    SearchPrefix \o tenantId \o <<":">>
        \o hashQuery(query, [tag |-> filters.tag, author |-> filters.author,
                             from |-> filters.from, to |-> filters.to,
                             offset |-> offset, limit |-> limit])

\* the document key without the tenant
getDocumentKeyNoTenant(tenantId, docId) == DocPrefix \o docId

getDocumentKey(tenantId, docId) == DocPrefix \o tenantId \o <<":">> \o docId

\* one counter per window for all tenants
countKeyShared(tenantId, windowStart) == RateLimitPrefix \o NumToStr(windowStart)

\* `ratelimit:${tenantId}` then `${key}:${windowStart}`
countKey(tenantId, windowStart) ==
    RateLimitPrefix \o tenantId \o <<":">> \o NumToStr(windowStart)

\* the pattern without the tenant: the search keys of every tenant
searchPatternAllTenants(tenantId) == SearchPrefix \o <<"*">>

\* `search:${tenantId}:*`
searchPattern(tenantId) == SearchPrefix \o tenantId \o <<":", "*">>

\* `${tenantId}_${docId}`
indexId(tenantId, docId) == tenantId \o <<"_">> \o docId

\* glob matching of KEYS: '*' matches any run of characters, '?' one
\* character, any other pattern character itself
RECURSIVE GlobMatch(_, _)
GlobMatch(p, s) ==
    IF p = <<>> THEN s = <<>>
    ELSE IF Head(p) = "*"
         THEN \E k \in 0..Len(s) : GlobMatch(Tail(p), SubSeq(s, k + 1, Len(s)))
    ELSE IF s = <<>> THEN FALSE
    ELSE (Head(p) = "?" \/ Head(p) = Head(s)) /\ GlobMatch(Tail(p), Tail(s))

-----------------------------------------------------------------------------
(* Redis service *)

JNum(n) == [num |-> n]

\* JSON.stringify of a value: a number becomes its decimal text, an object
\* (all of whose members are defined) its own text
JsonStringify(v) == IF "num" \in DOMAIN v THEN [text |-> NumToStr(v.num)] ELSE v

JsonParse(s) == IF "text" \in DOMAIN s THEN [num |-> StrToNum(s.text)] ELSE s

\* redisService.get: null for a missing key and for a failed call
RedisGet(key) ==
    IF ~redisUp THEN Null
    ELSE IF key \notin DOMAIN redis THEN Null
    ELSE JsonParse(redis[key].val)

\* the expiry of a key written by SET: none
NoExpiry == -1

\* every write a SET without an expiry
RedisSetNeverExpires(store, key, value, ttl) ==
    IF ~redisUp THEN store
    ELSE [k \in DOMAIN store \cup {key} |->
            IF k = key
            THEN [val |-> JsonStringify(value), exp |-> NoExpiry]
            ELSE store[k]]

\* redisService.set: SETEX when ttlSeconds is truthy, SET without an expiry
\* when it is 0; a failed call changes nothing
RedisSet(store, key, value, ttl) ==
    IF ~redisUp THEN store
    ELSE [k \in DOMAIN store \cup {key} |->
            IF k = key
            THEN [val |-> JsonStringify(value),
                  exp |-> IF ttl # 0 THEN now + ttl * 1000 ELSE NoExpiry]
            ELSE store[k]]

\* redisService.del
RedisDel(store, keys) ==
    IF ~redisUp THEN store
    ELSE [k \in DOMAIN store \ keys |-> store[k]]

\* client.keys(pattern) of redisService.delPattern
RedisKeys(pattern) ==
    IF ~redisUp THEN {}
    ELSE {k \in DOMAIN redis : GlobMatch(pattern, k)}

\* expiry of SETEX keys as time passes
Expire(store, t) ==
    [k \in {x \in DOMAIN store : store[x].exp = NoExpiry \/ store[x].exp > t} |->
        store[k]]

-----------------------------------------------------------------------------
(* Rate limiter *)

CeilDiv(a, b) == (a + b - 1) \div b

\* a boundary counted as the last instant of the window that ends there
WindowStartBoundaryInOldWindow(t) ==
    IF t > 0 /\ t % config.windowMs = 0 THEN t - config.windowMs
    ELSE (t \div config.windowMs) * config.windowMs

\* Math.floor(now / windowMs) * windowMs
WindowStart(t) == (t \div config.windowMs) * config.windowMs

ResetTime(t) == WindowStart(t) + config.windowMs

\* the division rounded down instead of up
RetryAfterFloor(t) == (ResetTime(t) - t) \div 1000

\* Math.ceil((resetTime - now) / 1000)
RetryAfter(t) == CeilDiv(ResetTime(t) - t, 1000)

\* a counter that cannot be read counting as a used-up budget
CurrentCountFailClosed(v) == IF v = Null THEN config.maxRequests ELSE v.num

\* await redisService.get<number>(countKey) || 0
CurrentCount(v) == IF v = Null THEN 0 ELSE v.num

\* the comparison off by one: > for >=
LimitExceededOffByOne(currentCount) == currentCount > config.maxRequests

\* the limit check that never rejects
LimitExceededNever(currentCount) == FALSE

\* if (currentCount >= maxRequests)
LimitExceeded(currentCount) == currentCount >= config.maxRequests

\* the remaining budget taken from the count read, not from the new count
RemainingBeforeIncrement(newCount) ==
    IF config.maxRequests - newCount + 1 > 0
    THEN config.maxRequests - newCount + 1 ELSE 0

\* Math.max(0, maxRequests - newCount)
Remaining(newCount) == IF config.maxRequests - newCount > 0 THEN config.maxRequests - newCount ELSE 0

\* Math.ceil(windowMs / 1000)
CounterTtl == CeilDiv(config.windowMs, 1000)

-----------------------------------------------------------------------------
(* OpenSearch service *)

Truthy(s) == s # Undef /\ s # <<>>

\* s || d for an optional string
OrElse(s, d) == IF Truthy(s) THEN s ELSE d

Whitespace == {" ", "\t", "\n"}

RECURSIVE TrimLeft(_)
TrimLeft(s) == IF s # <<>> /\ Head(s) \in Whitespace THEN TrimLeft(Tail(s)) ELSE s

RECURSIVE TrimRight(_)
TrimRight(s) ==
    IF s # <<>> /\ s[Len(s)] \in Whitespace
    THEN TrimRight(SubSeq(s, 1, Len(s) - 1)) ELSE s

\* String.prototype.trim
Trim(s) == TrimRight(TrimLeft(s))

MaxLimit == 50
DefaultLimit == 10

Min(a, b) == IF a < b THEN a ELSE b

TenantClause(tenantId) == [term |-> "tenant_id", value |-> tenantId]

\* the text tested without trim()
MustClausesUntrimmed(query) ==
    IF Truthy(query.q)
    THEN <<[multi_match |-> query.q]>>
    ELSE <<[match_all |-> TRUE]>>

\* the must clause: multi_match over title^3, content, tags^2 when the
\* query text is non-blank, match_all otherwise
MustClauses(query) ==
    IF Truthy(query.q) /\ Trim(query.q) # <<>>
    THEN <<[multi_match |-> query.q]>>
    ELSE <<[match_all |-> TRUE]>>

\* the tag branch assigning the filter list instead of pushing onto it
FilterClausesTagAssigns(tenantId, query) ==
    (IF Truthy(query.tag) THEN <<[term |-> "tags", value |-> query.tag]>>
     ELSE <<TenantClause(tenantId)>>)
    \o (IF Truthy(query.author)
        THEN <<[term |-> "metadata.author", value |-> query.author]>>
        ELSE <<>>)

\* from and to pushed as a range clause each
FilterClausesTwoRanges(tenantId, query) ==
    <<TenantClause(tenantId)>>
    \o (IF Truthy(query.tag) THEN <<[term |-> "tags", value |-> query.tag]>>
        ELSE <<>>)
    \o (IF Truthy(query.author)
        THEN <<[term |-> "metadata.author", value |-> query.author]>>
        ELSE <<>>)
    \o (IF Truthy(query.from)
        THEN <<[range |-> "created_at", gte |-> query.from, lte |-> Undef]>>
        ELSE <<>>)
    \o (IF Truthy(query.to)
        THEN <<[range |-> "created_at", gte |-> Undef, lte |-> query.to]>>
        ELSE <<>>)

\* filterClauses: the tenant term first, then one clause per given filter
FilterClauses(tenantId, query) ==
    <<TenantClause(tenantId)>>
    \o (IF Truthy(query.tag) THEN <<[term |-> "tags", value |-> query.tag]>>
        ELSE <<>>)
    \o (IF Truthy(query.author)
        THEN <<[term |-> "metadata.author", value |-> query.author]>>
        ELSE <<>>)
    \o (IF Truthy(query.from) \/ Truthy(query.to)
        THEN <<[range |-> "created_at",
                gte |-> IF Truthy(query.from) THEN query.from ELSE Undef,
                lte |-> IF Truthy(query.to) THEN query.to ELSE Undef]>>
        ELSE <<>>)

\* searchBody of OpenSearchService.search
BuildPlan(tenantId, query) ==
    [must   |-> MustClauses(query),
     filter |-> FilterClauses(tenantId, query),
     from   |-> query.offset,
     size   |-> Min(IF query.limit = 0 THEN DefaultLimit ELSE query.limit, MaxLimit)]

\* the engine: whitespace tokens of an analysed text field
RECURSIVE Tokens(_)
Tokens(s) ==
    LET t == TrimLeft(s) IN
    IF t = <<>> THEN {}
    ELSE LET n == CHOOSE k \in 1..Len(t) :
                    /\ \A i \in 1..k : t[i] \notin Whitespace
                    /\ (k = Len(t) \/ t[k + 1] \in Whitespace)
         IN {SubSeq(t, 1, n)} \cup Tokens(SubSeq(t, n + 1, Len(t)))

Range(f) == {f[i] : i \in DOMAIN f}

\* the engine: whether an indexed document satisfies one clause
Satisfies(d, c) ==
    IF "term" \in DOMAIN c
    THEN CASE c.term = "tenant_id" -> d.tenant_id = c.value
           [] c.term = "tags" -> c.value \in Range(d.tags)
           [] c.term = "metadata.author" -> d.author = c.value
    ELSE IF "range" \in DOMAIN c
    THEN /\ (c.gte = Undef \/ ~IsDigits(c.gte) \/ d.created_at >= StrToNum(c.gte))
         /\ (c.lte = Undef \/ ~IsDigits(c.lte) \/ d.created_at <= StrToNum(c.lte))
    ELSE IF "multi_match" \in DOMAIN c
    THEN \/ Tokens(c.multi_match) \cap (Tokens(d.title) \cup Tokens(d.content)) # {}
         \/ c.multi_match \in Range(d.tags)
    ELSE TRUE

Matching(idx, plan) ==
    {i \in DOMAIN idx :
        /\ \A k \in 1..Len(plan.filter) : Satisfies(idx[i], plan.filter[k])
        /\ \A k \in 1..Len(plan.must) : Satisfies(idx[i], plan.must[k])}

\* the engine: a fixed ranking of the matching documents
RECURSIVE Ranked(_)
Ranked(S) == IF S = {} THEN <<>>
             ELSE LET x == CHOOSE y \in S : TRUE IN <<x>> \o Ranked(S \ {x})

Page(hits, from, size) ==
    IF from >= Len(hits) THEN <<>>
    ELSE SubSeq(hits, from + 1, Min(Len(hits), from + size))

SnippetLen == 150

\* the hit mapping of OpenSearchService.search; owner records the tenant_id
\* of the indexed document the hit was made from
MapHit(d, q) ==
    [id      |-> d.doc_id,
     title   |-> d.title,
     snippet |-> IF Tokens(q) \cap Tokens(d.content) # {} THEN d.content
                 ELSE IF Tokens(q) \cap Tokens(d.title) # {} THEN d.title
                 ELSE IF Len(d.content) > SnippetLen
                      THEN SubSeq(d.content, 1, SnippetLen) \o <<".", ".", ".">>
                      ELSE d.content,
     tags    |-> d.tags,
     owner   |-> d.tenant_id]

\* client.search(searchBody): the hits of the page and the total
ExecuteSearch(idx, plan, q) ==
    LET ids  == Ranked(Matching(idx, plan))
        page == Page(ids, plan.from, plan.size)
    IN [results |-> [k \in 1..Len(page) |-> MapHit(idx[page[k]], q)],
        total   |-> Len(ids)]

\* indexDoc of OpenSearchService.indexDocument
IndexDoc(tenantId, docId, document, t) ==
    [tenant_id  |-> tenantId,
     doc_id     |-> docId,
     title      |-> document.title,
     content    |-> document.content,
     tags       |-> document.tags,
     author     |-> document.author,
     created_at |-> t]

\* client.index({ id: `${tenantId}_${docId}`, body: indexDoc })
IndexPut(idx, tenantId, docId, document, t) ==
    [i \in DOMAIN idx \cup {indexId(tenantId, docId)} |->
        IF i = indexId(tenantId, docId)
        THEN IndexDoc(tenantId, docId, document, t)
        ELSE idx[i]]

\* client.delete({ id: `${tenantId}_${docId}` })
IndexDelete(idx, tenantId, docId) ==
    [i \in DOMAIN idx \ {indexId(tenantId, docId)} |-> idx[i]]

mapIndexToDocument(source) ==
    [id        |-> source.doc_id,
     tenantId  |-> source.tenant_id,
     title     |-> source.title,
     content   |-> source.content,
     tags      |-> source.tags,
     author    |-> source.author,
     createdAt |-> source.created_at]

\* getDocument without the tenant_id verification
getDocumentUnverified(idx, tenantId, docId) ==
    IF indexId(tenantId, docId) \notin DOMAIN idx THEN Null
    ELSE mapIndexToDocument(idx[indexId(tenantId, docId)])

\* OpenSearchService.getDocument: null on a 404 and on a tenant mismatch
getDocument(idx, tenantId, docId) ==
    IF indexId(tenantId, docId) \notin DOMAIN idx THEN Null
    ELSE IF idx[indexId(tenantId, docId)].tenant_id # tenantId THEN Null
    ELSE mapIndexToDocument(idx[indexId(tenantId, docId)])

-----------------------------------------------------------------------------
(* Search route: parameter validation and the normalised query *)

\* the schema with a sign allowed in front of the offset
SearchQueryValidSignedOffset(raw) ==
    /\ raw.q = Undef \/ Len(raw.q) >= 1
    /\ \/ raw.offset = Undef
       \/ IsDigits(raw.offset)
       \/ (Len(raw.offset) >= 2 /\ raw.offset[1] = "-" /\ IsDigits(Tail(raw.offset)))
    /\ raw.limit = Undef \/ IsDigits(raw.limit)

\* SearchQuerySchema.safeParse(req.query).success
SearchQueryValid(raw) ==
    /\ raw.q = Undef \/ Len(raw.q) >= 1
    /\ raw.offset = Undef \/ IsDigits(raw.offset)
    /\ raw.limit = Undef \/ IsDigits(raw.limit)

\* data.limit || 10 without the clamp
QueryLimitUnclamped(raw) ==
    LET n == IF raw.limit = Undef THEN 0 ELSE StrToNum(raw.limit)
    IN IF n = 0 THEN DefaultLimit ELSE n

\* data.limit || 10, then clamped to 50
QueryLimit(raw) ==
    LET n == IF raw.limit = Undef THEN 0 ELSE StrToNum(raw.limit)
        l == IF n = 0 THEN DefaultLimit ELSE n
    IN IF l > MaxLimit THEN MaxLimit ELSE l

\* the SearchQuery object the handler builds
SearchQuery(raw) ==
    [q      |-> OrElse(raw.q, <<>>),
     offset |-> IF raw.offset = Undef THEN 0 ELSE StrToNum(raw.offset),
     limit  |-> QueryLimit(raw),
     tag    |-> raw.tag,
     author |-> raw.author,
     from   |-> raw.from,
     to     |-> raw.to]

\* the key cacheService.getSearchResult and setSearchResult are called with
SearchKeyOf(tenantId, query) ==
    getSearchKey(tenantId, OrElse(query.q, <<>>),
                 [tag |-> query.tag, author |-> query.author,
                  from |-> query.from, to |-> query.to],
                 query.offset,
                 IF query.limit = 0 THEN DefaultLimit ELSE query.limit)

SearchResponse(tenantId, query, found) ==
    [tenantId |-> tenantId,
     query    |-> OrElse(query.q, <<>>),
     offset   |-> query.offset,
     limit    |-> IF query.limit = 0 THEN DefaultLimit ELSE query.limit,
     total    |-> found.total,
     results  |-> found.results]

MaxTitleLen == 500
MaxContentLen == 100000

\* DocumentSchema.safeParse(req.body).success
DocumentValid(d) ==
    /\ Len(d.title) >= 1 /\ Len(d.title) <= MaxTitleLen
    /\ Len(d.content) >= 1 /\ Len(d.content) <= MaxContentLen

-----------------------------------------------------------------------------
(* Requests *)

Reqs == 1..NumReq

TA == <<"a">>
TB == <<"a", "_", "b">>
Tenants == {TA, TB}

\* X-Tenant-Id headers: the two tenants, a missing header, a malformed one
Headers == Tenants \cup {Undef, <<"a", ":">>}

DocIds == {<<"c">>, <<"b", "_", "c">>}

DocInputs ==
    {[id |-> i, title |-> <<"p">>, content |-> <<"x">>,
      tags |-> <<<<"t">>>>, author |-> Undef] : i \in DocIds}

NoParams == [q |-> Undef, offset |-> Undef, limit |-> Undef, tag |-> Undef,
             author |-> Undef, from |-> Undef, to |-> Undef]

SearchInputs == {NoParams, [NoParams EXCEPT !.q = <<"p">>]}

Operations ==
       {[op |-> "search", id |-> Undef, doc |-> Null, sq |-> raw] : raw \in SearchInputs}
  \cup {[op |-> "get", id |-> i, doc |-> Null, sq |-> Null] : i \in DocIds}
  \cup {[op |-> "delete", id |-> i, doc |-> Null, sq |-> Null] : i \in DocIds}
  \cup {[op |-> "post", id |-> Undef, doc |-> d, sq |-> Null] : d \in DocInputs}

NoReq == [hdr |-> Undef, op |-> "none", id |-> Undef, doc |-> Null, sq |-> Null]

\* quiet is history: whether the request arrived while no other request was
\* being handled and the document it names was not in the index
NoLoc == [t |-> 0, count |-> 0, rlFail |-> FALSE, plan |-> Null, keys |-> {},
          val |-> Null, deleted |-> FALSE, createdAt |-> 0, quiet |-> FALSE,
          nexts |-> <<>>]

NoResp == [status |-> 0, body |-> Null, retryAfter |-> 0, remaining |-> 0]

Reply(code, body) == [NoResp EXCEPT !.status = code, !.body = body]

InitWith(cfg) ==
    /\ now = 0
    /\ redis = <<>>
    /\ redisUp = TRUE
    /\ index = <<>>
    /\ indexUp = TRUE
    /\ pc = [r \in Reqs |-> "idle"]
    /\ req = [r \in Reqs |-> NoReq]
    /\ loc = [r \in Reqs |-> NoLoc]
    /\ resp = [r \in Reqs |-> NoResp]
    /\ work = [r \in Reqs |-> {}]
    /\ admitted = <<>>
    /\ started = 0
    /\ config = cfg

Init == InitWith(SmallConfig) /\ arg = Null /\ ret = Null

InFlight(r) == pc[r] \notin {"idle", "done"}

\* extractTenantId, then the synchronous part of rateLimiter up to the
\* counter read
Start(r, h, o) ==
    /\ ~InFlight(r)
    /\ started' = started + 1
    /\ req' = [req EXCEPT ![r] = [hdr |-> h, op |-> o.op, id |-> o.id,
                                  doc |-> o.doc, sq |-> o.sq]]
    /\ loc' = [loc EXCEPT ![r] =
          [NoLoc EXCEPT !.t = now,
                        !.quiet = /\ \A r2 \in Reqs : ~InFlight(r2)
                                  /\ o.op = "get"
                                  /\ getDocument(index, h, o.id) = Null]]
    /\ work' = [work EXCEPT ![r] = {}]
    /\ IF ~Truthy(h) \/ ~TenantIdSchema(h)
       THEN /\ pc' = [pc EXCEPT ![r] = "done"]
            /\ resp' = [resp EXCEPT ![r] = Reply(400, Null)]
       ELSE /\ pc' = [pc EXCEPT ![r] = "rl_get"]
            /\ resp' = [resp EXCEPT ![r] = NoResp]
    /\ UNCHANGED <<now, redis, redisUp, index, indexUp, admitted, config, arg, ret>>

TenantOf(r) == req[r].hdr

\* one counter per tenant, window and kind of operation
CountKeyOfPerRoute(r) ==
    countKey(TenantOf(r), WindowStart(loc[r].t)) \o <<":">> \o
        <<req[r].op>>

CountKeyOf(r) == countKey(TenantOf(r), WindowStart(loc[r].t))

\* the rejection branch without its return: the limiter carries on
AfterLimitCheckNoReturn(rejected) == "rl_set"

\* where the rate limiter goes after the limit check: next(error); return;
\* on a rejection, the counter write otherwise
AfterLimitCheck(rejected) == IF rejected THEN "done" ELSE "rl_set"

\* the counter read completes: 429 when the limit is reached, the counter
\* write otherwise
RlGet(r) ==
    /\ pc[r] = "rl_get"
    /\ LET currentCount == CurrentCount(RedisGet(CountKeyOf(r)))
           rejected == LimitExceeded(currentCount)
       IN
       /\ work' = [work EXCEPT ![r] = @ \cup {"counter_get"}]
       /\ loc' = [loc EXCEPT ![r].count = currentCount,
                             ![r].rlFail = ~redisUp,
                             ![r].nexts = IF rejected THEN Append(@, "next(error)")
                                          ELSE @]
       /\ pc' = [pc EXCEPT ![r] = AfterLimitCheck(rejected)]
       /\ resp' = [resp EXCEPT ![r] =
             IF rejected
             THEN [Reply(429, Null) EXCEPT !.retryAfter = RetryAfter(loc[r].t)]
             ELSE @]
    /\ UNCHANGED <<now, redis, redisUp, index, indexUp, req, admitted, started,
                   config, arg, ret>>

WindowOf(r) == <<TenantOf(r), WindowStart(loc[r].t)>>

Admitted(w) == IF w \in DOMAIN admitted THEN admitted[w] ELSE 0

\* next() of the rate limiter enters the route handler, which runs up to
\* its first await
RouteEntry(r) ==
    CASE req[r].op = "search" ->
            IF SearchQueryValid(req[r].sq) THEN "s_cache_get" ELSE "bad_request"
      [] req[r].op = "get" -> "d_cache_get"
      [] req[r].op = "post" ->
            IF DocumentValid(req[r].doc) THEN "p_index" ELSE "bad_request"
      [] req[r].op = "delete" -> "x_delete"

\* a failed counter write answered with an error, the continuation not called
RlSetFailsClosed(r) ==
    /\ pc[r] = "rl_set"
    /\ LET newCount == loc[r].count + 1 IN
       /\ redis' = RedisSet(redis, CountKeyOf(r), JNum(newCount), CounterTtl)
       /\ work' = [work EXCEPT ![r] = @ \cup {"counter_set"}]
       /\ loc' = [loc EXCEPT ![r].rlFail = @ \/ ~redisUp,
                             ![r].createdAt = now,
                             ![r].nexts = IF redisUp THEN Append(@, "next()") ELSE @]
       /\ admitted' = [w \in DOMAIN admitted \cup {WindowOf(r)} |->
                          IF w = WindowOf(r) THEN Admitted(w) + 1 ELSE admitted[w]]
       /\ IF RouteEntry(r) = "bad_request" \/ ~redisUp
          THEN /\ pc' = [pc EXCEPT ![r] = "done"]
               /\ resp' = [resp EXCEPT ![r] =
                     [Reply(IF redisUp THEN 400 ELSE 500, Null)
                        EXCEPT !.remaining = Remaining(newCount)]]
          ELSE /\ pc' = [pc EXCEPT ![r] = RouteEntry(r)]
               /\ resp' = [resp EXCEPT ![r].remaining = Remaining(newCount)]
    /\ UNCHANGED <<now, redisUp, index, indexUp, req, started, config, arg, ret>>

\* the counter write completes (or fails), the headers are set and next()
\* is called
RlSet(r) ==
    /\ pc[r] = "rl_set"
    /\ LET newCount == loc[r].count + 1 IN
       /\ redis' = RedisSet(redis, CountKeyOf(r), JNum(newCount), CounterTtl)
       /\ work' = [work EXCEPT ![r] = @ \cup {"counter_set"}]
       /\ loc' = [loc EXCEPT ![r].rlFail = @ \/ ~redisUp,
                             ![r].createdAt = now,
                             ![r].nexts = Append(@, "next()")]
       /\ admitted' = [w \in DOMAIN admitted \cup {WindowOf(r)} |->
                          IF w = WindowOf(r) THEN Admitted(w) + 1 ELSE admitted[w]]
       /\ IF RouteEntry(r) = "bad_request"
          THEN /\ pc' = [pc EXCEPT ![r] = "done"]
               /\ resp' = [resp EXCEPT ![r] =
                     [Reply(400, Null) EXCEPT !.remaining = Remaining(newCount)]]
          ELSE /\ pc' = [pc EXCEPT ![r] = RouteEntry(r)]
               /\ resp' = [resp EXCEPT ![r].remaining = Remaining(newCount)]
    /\ UNCHANGED <<now, redisUp, index, indexUp, req, started, config, arg, ret>>

Finish(r, code, body) ==
    /\ pc' = [pc EXCEPT ![r] = "done"]
    /\ resp' = [resp EXCEPT ![r].status = code, ![r].body = body]

QueryOf(r) == SearchQuery(req[r].sq)

\* the cache check whose result is not looked at: every search goes on to
\* the index
SearchCacheGetSkipsHit(r) ==
    /\ pc[r] = "s_cache_get"
    /\ pc' = [pc EXCEPT ![r] = "s_search"]
    /\ work' = [work EXCEPT ![r] = @ \cup {"cache_get"}]
    /\ UNCHANGED <<now, redis, redisUp, index, indexUp, req, loc, resp, admitted,
                   started, config, arg, ret>>

\* cacheService.getSearchResult completes: a hit is the response
SearchCacheGet(r) ==
    /\ pc[r] = "s_cache_get"
    /\ LET cached == RedisGet(SearchKeyOf(TenantOf(r), QueryOf(r))) IN
       IF cached # Null
       THEN Finish(r, 200, cached)
       ELSE /\ pc' = [pc EXCEPT ![r] = "s_search"]
            /\ UNCHANGED resp
    /\ work' = [work EXCEPT ![r] = @ \cup {"cache_get"}]
    /\ UNCHANGED <<now, redis, redisUp, index, indexUp, req, loc, admitted,
                   started, config, arg, ret>>

\* a failure of the engine taken for an empty result, which is cached
SearchIndexCachesFailure(r) ==
    /\ pc[r] = "s_search"
    /\ work' = [work EXCEPT ![r] = @ \cup {"index_search"}]
    /\ LET plan == BuildPlan(TenantOf(r), QueryOf(r))
           found == IF indexUp THEN ExecuteSearch(index, plan, QueryOf(r).q)
                    ELSE [results |-> <<>>, total |-> 0]
       IN /\ pc' = [pc EXCEPT ![r] = "s_cache_set"]
          /\ loc' = [loc EXCEPT
                ![r].plan = plan,
                ![r].val = SearchResponse(TenantOf(r), QueryOf(r), found)]
          /\ UNCHANGED resp
    /\ UNCHANGED <<now, redis, redisUp, index, indexUp, req, admitted, started,
                   config, arg, ret>>

\* opensearchService.search completes: the response is built and the cache
\* write issued; a failure of the engine is passed to the error handler
SearchIndex(r) ==
    /\ pc[r] = "s_search"
    /\ work' = [work EXCEPT ![r] = @ \cup {"index_search"}]
    /\ LET plan == BuildPlan(TenantOf(r), QueryOf(r)) IN
       /\ IF indexUp
          THEN /\ pc' = [pc EXCEPT ![r] = "s_cache_set"]
               /\ loc' = [loc EXCEPT
                     ![r].plan = plan,
                     ![r].val = SearchResponse(TenantOf(r), QueryOf(r),
                                   ExecuteSearch(index, plan, QueryOf(r).q))]
               /\ UNCHANGED resp
          ELSE /\ Finish(r, 500, Null)
               /\ loc' = [loc EXCEPT ![r].plan = plan]
    /\ UNCHANGED <<now, redis, redisUp, index, indexUp, req, admitted, started,
                   config, arg, ret>>

\* a failed cache write failing the request
SearchCacheSetFailsRequest(r) ==
    /\ pc[r] = "s_cache_set"
    /\ redis' = RedisSet(redis, SearchKeyOf(TenantOf(r), QueryOf(r)),
                         loc[r].val, config.searchTtlSeconds)
    /\ work' = [work EXCEPT ![r] = @ \cup {"cache_set"}]
    /\ IF redisUp THEN Finish(r, 200, loc[r].val) ELSE Finish(r, 500, Null)
    /\ loc' = [loc EXCEPT ![r].val = Null]
    /\ UNCHANGED <<now, redisUp, index, indexUp, req, admitted, started, config, arg, ret>>

\* the search response cached with the expiry of documents
SearchCacheSetDocTtl(r) ==
    /\ pc[r] = "s_cache_set"
    /\ redis' = RedisSet(redis, SearchKeyOf(TenantOf(r), QueryOf(r)),
                         loc[r].val, config.ttlSeconds)
    /\ work' = [work EXCEPT ![r] = @ \cup {"cache_set"}]
    /\ Finish(r, 200, loc[r].val)
    /\ loc' = [loc EXCEPT ![r].val = Null]
    /\ UNCHANGED <<now, redisUp, index, indexUp, req, admitted, started, config, arg, ret>>

\* cacheService.setSearchResult completes (or fails) and the response is sent
SearchCacheSet(r) ==
    /\ pc[r] = "s_cache_set"
    /\ redis' = RedisSet(redis, SearchKeyOf(TenantOf(r), QueryOf(r)),
                         loc[r].val, config.searchTtlSeconds)
    /\ work' = [work EXCEPT ![r] = @ \cup {"cache_set"}]
    /\ Finish(r, 200, loc[r].val)
    /\ loc' = [loc EXCEPT ![r].val = Null]
    /\ UNCHANGED <<now, redisUp, index, indexUp, req, admitted, started, config, arg, ret>>

\* cacheService.getDocument completes: a hit is the response
DocCacheGet(r) ==
    /\ pc[r] = "d_cache_get"
    /\ LET cached == RedisGet(getDocumentKey(TenantOf(r), req[r].id)) IN
       IF cached # Null
       THEN Finish(r, 200, cached)
       ELSE /\ pc' = [pc EXCEPT ![r] = "d_fetch"]
            /\ UNCHANGED resp
    /\ work' = [work EXCEPT ![r] = @ \cup {"cache_get"}]
    /\ UNCHANGED <<now, redis, redisUp, index, indexUp, req, loc, admitted,
                   started, config, arg, ret>>

\* a document of another tenant answered 403 instead of 404
DocIndexGetForbidden(r) ==
    /\ pc[r] = "d_fetch"
    /\ work' = [work EXCEPT ![r] = @ \cup {"index_get"}]
    /\ LET document == getDocument(index, TenantOf(r), req[r].id) IN
       IF ~indexUp THEN Finish(r, 500, Null) /\ UNCHANGED loc
       ELSE IF document = Null
       THEN /\ Finish(r, IF indexId(TenantOf(r), req[r].id) \in DOMAIN index
                         THEN 403 ELSE 404, Null)
            /\ UNCHANGED loc
       ELSE /\ pc' = [pc EXCEPT ![r] = "d_cache_set"]
            /\ loc' = [loc EXCEPT ![r].val = document]
            /\ UNCHANGED resp
    /\ UNCHANGED <<now, redis, redisUp, index, indexUp, req, admitted, started,
                   config, arg, ret>>

\* opensearchService.getDocument completes: 404 for null, 500 for a failure,
\* the cache write otherwise
DocIndexGet(r) ==
    /\ pc[r] = "d_fetch"
    /\ work' = [work EXCEPT ![r] = @ \cup {"index_get"}]
    /\ LET document == getDocument(index, TenantOf(r), req[r].id) IN
       IF ~indexUp THEN Finish(r, 500, Null) /\ UNCHANGED loc
       ELSE IF document = Null THEN Finish(r, 404, Null) /\ UNCHANGED loc
       ELSE /\ pc' = [pc EXCEPT ![r] = "d_cache_set"]
            /\ loc' = [loc EXCEPT ![r].val = document]
            /\ UNCHANGED resp
    /\ UNCHANGED <<now, redis, redisUp, index, indexUp, req, admitted, started,
                   config, arg, ret>>

\* the document cached with the expiry of search responses
DocCacheSetSearchTtl(r) ==
    /\ pc[r] = "d_cache_set"
    /\ redis' = RedisSet(redis, getDocumentKey(TenantOf(r), req[r].id),
                         loc[r].val, config.searchTtlSeconds)
    /\ work' = [work EXCEPT ![r] = @ \cup {"cache_set"}]
    /\ Finish(r, 200, loc[r].val)
    /\ loc' = [loc EXCEPT ![r].val = Null]
    /\ UNCHANGED <<now, redisUp, index, indexUp, req, admitted, started, config, arg, ret>>

\* cacheService.setDocument completes (or fails) and the response is sent
DocCacheSet(r) ==
    /\ pc[r] = "d_cache_set"
    /\ redis' = RedisSet(redis, getDocumentKey(TenantOf(r), req[r].id),
                         loc[r].val, config.ttlSeconds)
    /\ work' = [work EXCEPT ![r] = @ \cup {"cache_set"}]
    /\ Finish(r, 200, loc[r].val)
    /\ loc' = [loc EXCEPT ![r].val = Null]
    /\ UNCHANGED <<now, redisUp, index, indexUp, req, admitted, started, config, arg, ret>>

RandomSuffixes == {<<"r">>}

\* `doc_${Date.now()}_${Math.random().toString(36).substring(2, 9)}`
generateDocId(t, rnd) == <<"d", "o", "c", "_">> \o NumToStr(t) \o <<"_">> \o rnd

\* the invalidation issued whether or not the index write succeeded
PostIndexInvalidatesAnyway(r, rnd) ==
    /\ pc[r] = "p_index"
    /\ work' = [work EXCEPT ![r] = @ \cup {"index_put"}]
    /\ LET docId == IF Truthy(req[r].doc.id) THEN req[r].doc.id
                    ELSE generateDocId(loc[r].createdAt, rnd)
       IN index' = IF indexUp
                   THEN IndexPut(index, TenantOf(r), docId, req[r].doc,
                                 loc[r].createdAt)
                   ELSE index
    /\ pc' = [pc EXCEPT ![r] = "inval_keys"]
    /\ UNCHANGED <<now, redis, redisUp, indexUp, req, loc, resp, admitted,
                   started, config, arg, ret>>

\* POST /documents: opensearchService.indexDocument completes; a failure is
\* passed to the error handler, otherwise the search cache is invalidated
PostIndex(r, rnd) ==
    /\ pc[r] = "p_index"
    /\ work' = [work EXCEPT ![r] = @ \cup {"index_put"}]
    /\ LET docId == IF Truthy(req[r].doc.id) THEN req[r].doc.id
                    ELSE generateDocId(loc[r].createdAt, rnd)
       IN IF indexUp
          THEN /\ index' = IndexPut(index, TenantOf(r), docId, req[r].doc,
                                    loc[r].createdAt)
               /\ pc' = [pc EXCEPT ![r] = "inval_keys"]
               /\ UNCHANGED resp
          ELSE /\ Finish(r, 500, Null)
               /\ UNCHANGED index
    /\ UNCHANGED <<now, redis, redisUp, indexUp, req, loc, admitted, started,
                   config, arg, ret>>

\* the 404 of the engine passed on to the caller
DeleteIndexRejectsMissing(r) ==
    /\ pc[r] = "x_delete"
    /\ work' = [work EXCEPT ![r] = @ \cup {"index_delete"}]
    /\ IF indexUp /\ indexId(TenantOf(r), req[r].id) \in DOMAIN index
       THEN /\ index' = IndexDelete(index, TenantOf(r), req[r].id)
            /\ loc' = [loc EXCEPT ![r].deleted = TRUE]
            /\ pc' = [pc EXCEPT ![r] = "x_inval_doc"]
            /\ UNCHANGED resp
       ELSE /\ Finish(r, IF indexUp THEN 404 ELSE 500, Null)
            /\ UNCHANGED <<index, loc>>
    /\ UNCHANGED <<now, redis, redisUp, indexUp, req, admitted, started, config, arg, ret>>

\* DELETE /documents/:id: opensearchService.deleteDocument completes; false
\* for a 404 of the engine
DeleteIndex(r) ==
    /\ pc[r] = "x_delete"
    /\ work' = [work EXCEPT ![r] = @ \cup {"index_delete"}]
    /\ IF indexUp
       THEN /\ index' = IndexDelete(index, TenantOf(r), req[r].id)
            /\ loc' = [loc EXCEPT ![r].deleted =
                          indexId(TenantOf(r), req[r].id) \in DOMAIN index]
            /\ pc' = [pc EXCEPT ![r] = "x_inval_doc"]
            /\ UNCHANGED resp
       ELSE /\ Finish(r, 500, Null)
            /\ UNCHANGED <<index, loc>>
    /\ UNCHANGED <<now, redis, redisUp, indexUp, req, admitted, started, config, arg, ret>>

\* the delete handler carrying on without removing the document's cache entry
InvalDocKeepsEntry(r) ==
    /\ pc[r] = "x_inval_doc"
    /\ work' = [work EXCEPT ![r] = @ \cup {"cache_del"}]
    /\ pc' = [pc EXCEPT ![r] = "inval_keys"]
    /\ UNCHANGED <<now, redis, redisUp, index, indexUp, req, loc, resp, admitted,
                   started, config, arg, ret>>

\* cacheService.invalidateDocument completes (or fails)
InvalDoc(r) ==
    /\ pc[r] = "x_inval_doc"
    /\ redis' = RedisDel(redis, {getDocumentKey(TenantOf(r), req[r].id)})
    /\ work' = [work EXCEPT ![r] = @ \cup {"cache_del"}]
    /\ pc' = [pc EXCEPT ![r] = "inval_keys"]
    /\ UNCHANGED <<now, redisUp, index, indexUp, req, loc, resp, admitted,
                   started, config, arg, ret>>

\* the response of the two mutating handlers
WriteResult(r) ==
    IF req[r].op = "post"
    THEN [id |-> OrElse(req[r].doc.id, <<"g","e","n","e","r","a","t","e","d">>),
          tenantId |-> TenantOf(r), status |-> "indexed"]
    ELSE [id |-> req[r].id, tenantId |-> TenantOf(r),
          status |-> IF loc[r].deleted THEN "deleted" ELSE "not_found_or_deleted"]

WriteStatus(r) == IF req[r].op = "post" THEN 201 ELSE 200

\* a failed KEYS passed to the error handler
InvalKeysFailsRequest(r) ==
    /\ pc[r] = "inval_keys"
    /\ work' = [work EXCEPT ![r] = @ \cup {"cache_keys"}]
    /\ LET keys == RedisKeys(searchPattern(TenantOf(r))) IN
       IF ~redisUp
       THEN /\ Finish(r, 500, Null)
            /\ UNCHANGED loc
       ELSE IF keys = {}
       THEN /\ Finish(r, WriteStatus(r), WriteResult(r))
            /\ UNCHANGED loc
       ELSE /\ pc' = [pc EXCEPT ![r] = "inval_del"]
            /\ loc' = [loc EXCEPT ![r].keys = keys]
            /\ UNCHANGED resp
    /\ UNCHANGED <<now, redis, redisUp, index, indexUp, req, admitted, started,
                   config, arg, ret>>

\* cacheService.invalidateTenantSearches, first half: KEYS search:<tenant>:*
\* completes; with no key (or a failure) delPattern returns at once
InvalKeys(r) ==
    /\ pc[r] = "inval_keys"
    /\ work' = [work EXCEPT ![r] = @ \cup {"cache_keys"}]
    /\ LET keys == RedisKeys(searchPattern(TenantOf(r))) IN
       IF keys = {}
       THEN /\ Finish(r, WriteStatus(r), WriteResult(r))
            /\ UNCHANGED loc
       ELSE /\ pc' = [pc EXCEPT ![r] = "inval_del"]
            /\ loc' = [loc EXCEPT ![r].keys = keys]
            /\ UNCHANGED resp
    /\ UNCHANGED <<now, redis, redisUp, index, indexUp, req, admitted, started,
                   config, arg, ret>>

\* second half: DEL of the keys found completes (or fails)
InvalDel(r) ==
    /\ pc[r] = "inval_del"
    /\ redis' = RedisDel(redis, loc[r].keys)
    /\ work' = [work EXCEPT ![r] = @ \cup {"cache_del"}]
    /\ loc' = [loc EXCEPT ![r].keys = {}]
    /\ Finish(r, WriteStatus(r), WriteResult(r))
    /\ UNCHANGED <<now, redisUp, index, indexUp, req, admitted, started, config, arg, ret>>

-----------------------------------------------------------------------------
(* Environment *)

\* time passes; keys whose expiry is reached are gone
Tick(horizon) ==
    /\ now + TickMs <= horizon
    /\ now' = now + TickMs
    /\ redis' = Expire(redis, now')
    /\ UNCHANGED <<redisUp, index, indexUp, pc, req, loc, resp, work, admitted,
                   started, config, arg, ret>>

RedisFail ==
    /\ redisUp
    /\ redisUp' = FALSE
    /\ UNCHANGED <<now, redis, index, indexUp, pc, req, loc, resp, work,
                   admitted, started, config, arg, ret>>

RedisRecover ==
    /\ ~redisUp
    /\ redisUp' = TRUE
    /\ UNCHANGED <<now, redis, index, indexUp, pc, req, loc, resp, work,
                   admitted, started, config, arg, ret>>

IndexFail ==
    /\ indexUp
    /\ indexUp' = FALSE
    /\ UNCHANGED <<now, redis, redisUp, index, pc, req, loc, resp, work,
                   admitted, started, config, arg, ret>>

IndexRecover ==
    /\ ~indexUp
    /\ indexUp' = TRUE
    /\ UNCHANGED <<now, redis, redisUp, index, pc, req, loc, resp, work,
                   admitted, started, config, arg, ret>>

ReadStep(r) ==
    \/ SearchCacheGet(r)
    \/ SearchIndex(r)
    \/ SearchCacheSet(r)
    \/ DocCacheGet(r)
    \/ DocIndexGet(r)
    \/ DocCacheSet(r)

WriteStep(r) ==
    \/ \E rnd \in RandomSuffixes : PostIndex(r, rnd)
    \/ DeleteIndex(r)
    \/ InvalDoc(r)
    \/ InvalKeys(r)
    \/ InvalDel(r)

Step(r) ==
    \/ RlGet(r)
    \/ RlSet(r)
    \/ ReadStep(r)
    \/ WriteStep(r)

Idle == \A r \in Reqs : ~InFlight(r)

\* requests of both tenants on both routes, handled concurrently
Next ==
    \/ \E r \in Reqs, h \in Headers, o \in Operations :
          started < MaxStarted /\ Start(r, h, o)
    \/ \E r \in Reqs : Step(r)

Spec == Init /\ [][Next]_vars

\* the rate limiter in front of reads of a document nobody stored
RateOps == {[op |-> "get", id |-> <<"c">>, doc |-> Null, sq |-> Null]}

RateStep(r) ==
    \/ RlGet(r)
    \/ RlSet(r)
    \/ DocCacheGet(r)
    \/ DocIndexGet(r)

\* concurrent requests, time passing, the key-value store failing and
\* recovering
NextRate ==
    \/ \E r \in Reqs, h \in Tenants, o \in RateOps :
          started < MaxStarted /\ Start(r, h, o)
    \/ \E r \in Reqs : RateStep(r)
    \/ Tick(MaxNow)
    \/ RedisFail
    \/ RedisRecover

SpecRate == Init /\ [][NextRate]_vars

\* requests handled one after another, with healthy stores
NextSeq ==
    \/ \E h \in Tenants, o \in RateOps :
          started < MaxStartedSeq /\ Idle /\ Start(1, h, o)
    \/ RateStep(1)
    \/ Tick(MaxNowSeq)

SpecSeq == Init /\ [][NextSeq]_vars

-----------------------------------------------------------------------------
(* Key derivation on its own: every pair of (tenant id, document id) *)

TenantAlphabet == {"a", "_", ":"}
DocAlphabet == {"a", "_", ":"}

\* the tenant ids the tenant middleware lets through
ValidTenantIds ==
    {s \in StringsUpTo(TenantAlphabet, MaxTenantLen) : TenantIdSchema(s)}

DocIdStrings == StringsUpTo(DocAlphabet, MaxDocIdLen) \ {<<>>}

KeyInputs == [ta : ValidTenantIds, da : DocIdStrings,
              tb : ValidTenantIds, db : DocIdStrings]

NoFilters == [tag |-> Undef, author |-> Undef, from |-> Undef, to |-> Undef]

\* the keys of one (tenant, text): the text serves as document id and as
\* query text, its length picks the window
KeysOf(t, d) ==
    [search |-> getSearchKey(t, d, NoFilters, 0, DefaultLimit),
     doc    |-> getDocumentKey(t, d),
     count  |-> countKey(t, WindowStart(Len(d) * config.windowMs)),
     index  |-> indexId(t, d)]

InitKeys == InitWith(SmallConfig) /\ arg \in KeyInputs /\ ret = Null

DeriveKeys ==
    /\ ret = Null
    /\ ret' = [a |-> KeysOf(arg.ta, arg.da), b |-> KeysOf(arg.tb, arg.db),
               pattern |-> searchPattern(arg.ta)]
    /\ UNCHANGED <<sysVars, config, arg>>

SpecKeys == InitKeys /\ [][DeriveKeys]_vars

-----------------------------------------------------------------------------
(* Query planning on its own: every header and every parameter combination *)

RawParams ==
    [q      : {Undef, <<>>, <<" ">>, <<"p">>},
     offset : {Undef, <<"0">>, <<"5">>, <<"-", "1">>},
     limit  : {Undef, <<"0">>, <<"1">>, <<"5", "0">>, <<"5", "1">>, <<"1", "0", "0">>},
     tag    : {Undef, <<>>, <<"t">>},
     author : {Undef, <<"u">>},
     from   : {Undef, <<"1">>},
     to     : {Undef, <<"2">>}]

PlanInputs == [hdr : Headers, raw : RawParams]

InitPlan == InitWith(SmallConfig) /\ arg \in PlanInputs /\ ret = Null

\* extractTenantId, the parameter validation of GET /search and the plan
\* OpenSearchService.search sends
PlanSearch ==
    /\ ret = Null
    /\ ret' = IF ~Truthy(arg.hdr) \/ ~TenantIdSchema(arg.hdr)
                 \/ ~SearchQueryValid(arg.raw)
              THEN [status |-> 400, plan |-> Null, key |-> Null, limit |-> 0]
              ELSE LET query == SearchQuery(arg.raw) IN
                   [status |-> 200,
                    plan   |-> BuildPlan(arg.hdr, query),
                    key    |-> SearchKeyOf(arg.hdr, query),
                    limit  |-> SearchResponse(arg.hdr, query,
                                   [results |-> <<>>, total |-> 0]).limit]
    /\ UNCHANGED <<sysVars, config, arg>>

SpecPlan == InitPlan /\ [][PlanSearch]_vars

-----------------------------------------------------------------------------
(* The rate limiter over window sizes and arrival times *)

MaxClockWindows == 2
MaxStartedClock == 4

\* RATE_LIMIT_WINDOW_MS: below, at and above one second, and the default
WindowSizes == {1, 999, 1000, 1001, 1500, 60000}

ClockOffsets == {0, 1, 499, 500, 999, 1000, 1001}

\* arrival times: at a window boundary, just after it, just before the next
ArrivalTimes(w) ==
    {k * w + o : k \in 0..MaxClockWindows,
                 o \in {x \in ClockOffsets \cup {w - 1} : x < w}}

InitClock ==
    /\ \E w \in WindowSizes :
          /\ config = [SmallConfig EXCEPT !.windowMs = w]
          /\ now \in ArrivalTimes(w)
    /\ redis = <<>>
    /\ redisUp = TRUE
    /\ index = <<>>
    /\ indexUp = TRUE
    /\ pc = [r \in Reqs |-> "idle"]
    /\ req = [r \in Reqs |-> NoReq]
    /\ loc = [r \in Reqs |-> NoLoc]
    /\ resp = [r \in Reqs |-> NoResp]
    /\ work = [r \in Reqs |-> {}]
    /\ admitted = <<>>
    /\ started = 0
    /\ arg = Null
    /\ ret = Null

\* requests of one tenant, one after another, at one arrival time
NextClock ==
    \/ \E o \in RateOps : started < MaxStartedClock /\ Idle /\ Start(1, TA, o)
    \/ RateStep(1)

SpecClock == InitClock /\ [][NextClock]_vars

-----------------------------------------------------------------------------
(* The search route with its cache: searches and index writes of one tenant, *)
(* time passing, the key-value store and the index engine failing            *)

CacheOps ==
       {[op |-> "search", id |-> Undef, doc |-> Null, sq |-> raw] : raw \in SearchInputs}
  \cup {[op |-> "post", id |-> Undef, doc |-> d, sq |-> Null] :
            d \in {x \in DocInputs : x.id = <<"c">>}}

CacheStep(r) ==
    \/ RlGet(r)
    \/ RlSet(r)
    \/ SearchCacheGet(r)
    \/ SearchIndex(r)
    \/ SearchCacheSet(r)
    \/ \E rnd \in RandomSuffixes : PostIndex(r, rnd)
    \/ InvalKeys(r)
    \/ InvalDel(r)

\* one request at a time
NextCache ==
    \/ \E o \in CacheOps : started < MaxStarted /\ Idle /\ Start(1, TA, o)
    \/ CacheStep(1)
    \/ Tick(MaxNow)
    \/ RedisFail
    \/ RedisRecover
    \/ IndexFail
    \/ IndexRecover

SpecCache == Init /\ [][NextCache]_vars

-----------------------------------------------------------------------------
(* The document routes of one tenant on one document id: concurrent reads,  *)
(* index writes of two versions and deletes, the index engine failing       *)

MaxStartedDoc == 4

DocVersions ==
    {[id |-> <<"c">>, title |-> <<"p">>, content |-> v,
      tags |-> <<<<"t">>>>, author |-> Undef] : v \in {<<"x">>, <<"y">>}}

WriteOps ==
       {[op |-> "get", id |-> <<"c">>, doc |-> Null, sq |-> Null],
        [op |-> "delete", id |-> <<"c">>, doc |-> Null, sq |-> Null],
        [op |-> "search", id |-> Undef, doc |-> Null, sq |-> NoParams]}
  \cup {[op |-> "post", id |-> Undef, doc |-> d, sq |-> Null] : d \in DocVersions}

NextWrite ==
    \/ \E r \in Reqs, o \in WriteOps : started < MaxStartedDoc /\ Start(r, TA, o)
    \/ \E r \in Reqs : Step(r)
    \/ IndexFail
    \/ IndexRecover

\* the limit of the rate limiter out of the way of MaxStartedDoc requests
DocConfig == [SmallConfig EXCEPT !.maxRequests = MaxStartedDoc]

SpecWrite == InitWith(DocConfig) /\ arg = Null /\ ret = Null /\ [][NextWrite]_vars

\* the same requests one after another, with healthy stores
NextWriteSeq ==
    \/ \E o \in WriteOps : started < MaxStartedDoc /\ Idle /\ Start(1, TA, o)
    \/ Step(1)

SpecWriteSeq ==
    InitWith(DocConfig) /\ arg = Null /\ ret = Null /\ [][NextWriteSeq]_vars

\* the same requests one after another while the cache store fails and
\* recovers and its keys expire; the clock is followed for as long as the
\* store holds a key that can expire. The expiries are the configured ones,
\* or 0 for the documents (CACHE_TTL_SECONDS=0)
MaxStartedStale == 3

StaleConfigs == {DocConfig, [DocConfig EXCEPT !.ttlSeconds = 0]}

InitStale ==
    /\ \E cfg \in StaleConfigs : InitWith(cfg)
    /\ arg = Null
    /\ ret = Null

TickWhileCached ==
    /\ \E k \in DOMAIN redis : redis[k].exp # NoExpiry
    /\ Tick(now + TickMs)

NextStale ==
    \/ \E o \in WriteOps : started < MaxStartedStale /\ Idle /\ Start(1, TA, o)
    \/ Step(1)
    \/ TickWhileCached
    \/ RedisFail
    \/ RedisRecover

\* time passes whatever the handlers do
SpecStale == InitStale /\ [][NextStale]_vars /\ WF_vars(TickWhileCached)

\* X-Tenant-Id headers around the schema: missing, empty, a character outside
\* the class, a space, of the longest length allowed, one character longer
LongestTenantId == [i \in 1..MaxTenantIdLen |-> "a"]

HeaderInputs ==
    {Undef, <<>>, <<"a", ":">>, <<"a", " ">>, TA, LongestTenantId,
     LongestTenantId \o <<"a">>}

NextTenant ==
    \/ \E r \in Reqs, h \in HeaderInputs, o \in WriteOps :
          started < MaxStarted /\ Start(r, h, o)
    \/ \E r \in Reqs : Step(r)

\* both routes behind extractTenantId, requests with every kind of header
SpecTenant == Init /\ [][NextTenant]_vars

\* searches of one tenant with every kind of offset and limit, next to
\* writes and deletes of one document
PagingValues == {Undef, <<>>, <<"1">>, <<"-", "1">>, <<"1", ".", "5">>, <<"x">>}

PagingInputs ==
       {[NoParams EXCEPT !.offset = o] : o \in PagingValues}
  \cup {[NoParams EXCEPT !.limit = l] : l \in PagingValues}

PagingOps ==
       {[op |-> "search", id |-> Undef, doc |-> Null, sq |-> raw] : raw \in PagingInputs}
  \cup {o \in WriteOps : o.op # "search"}

NextPaging ==
    \/ \E r \in Reqs, o \in PagingOps : started < MaxStarted /\ Start(r, TA, o)
    \/ \E r \in Reqs : Step(r)

SpecPaging == InitWith(DocConfig) /\ arg = Null /\ ret = Null /\ [][NextPaging]_vars

\* GET /health: the two dependency checks of Promise.all complete in either
\* order while the dependencies fail and recover; the check that completes
\* last sends the response
MaxStartedHealth == 3

Pending == "?"

UpDown(healthy) == IF healthy THEN "UP" ELSE "DOWN"

\* the status reported for one healthy dependency and one that is not: DOWN
HealthStatusStrict(opensearchHealthy, redisHealthy) ==
    IF opensearchHealthy /\ redisHealthy THEN "UP" ELSE "DOWN"

\* opensearchHealthy && redisHealthy ? 'UP'
\*   : opensearchHealthy || redisHealthy ? 'DEGRADED' : 'DOWN'
HealthStatus(opensearchHealthy, redisHealthy) ==
    IF opensearchHealthy /\ redisHealthy THEN "UP"
    ELSE IF opensearchHealthy \/ redisHealthy THEN "DEGRADED"
    ELSE "DOWN"

\* status.status === 'UP' ? 200 : status.status === 'DEGRADED' ? 200 : 503
HealthHttpStatus(status) ==
    IF status = "UP" THEN 200 ELSE IF status = "DEGRADED" THEN 200 ELSE 503

HealthBody(opensearchHealthy, redisHealthy) ==
    [status |-> HealthStatus(opensearchHealthy, redisHealthy),
     dependencies |-> [elasticsearch |-> UpDown(opensearchHealthy),
                       redis |-> UpDown(redisHealthy)]]

HealthStart(r) ==
    /\ ~InFlight(r)
    /\ started' = started + 1
    /\ req' = [req EXCEPT ![r] = [NoReq EXCEPT !.op = "health"]]
    /\ loc' = [loc EXCEPT ![r] =
          [NoLoc EXCEPT !.val = [elasticsearch |-> Pending, redis |-> Pending]]]
    /\ work' = [work EXCEPT ![r] = {}]
    /\ pc' = [pc EXCEPT ![r] = "h_checks"]
    /\ resp' = [resp EXCEPT ![r] = NoResp]
    /\ UNCHANGED <<now, redis, redisUp, index, indexUp, admitted, config, arg, ret>>

\* one check of request r completes with the given result
HealthCheckDone(r, dep, healthy, call) ==
    /\ pc[r] = "h_checks"
    /\ loc[r].val[dep] = Pending
    /\ work' = [work EXCEPT ![r] = @ \cup {call}]
    /\ LET checks == [loc[r].val EXCEPT ![dep] = UpDown(healthy)] IN
       IF \E d \in DOMAIN checks : checks[d] = Pending
       THEN /\ loc' = [loc EXCEPT ![r].val = checks]
            /\ UNCHANGED <<pc, resp>>
       ELSE LET body == HealthBody(checks.elasticsearch = "UP",
                                   checks.redis = "UP") IN
            /\ loc' = [loc EXCEPT ![r].val = checks]
            /\ pc' = [pc EXCEPT ![r] = "done"]
            /\ resp' = [resp EXCEPT ![r] =
                  Reply(HealthHttpStatus(body.status), body)]
    /\ UNCHANGED <<now, redis, redisUp, index, indexUp, req, admitted, started,
                   config, arg, ret>>

\* opensearchService.healthCheck: false for a red cluster and for a failure
HealthIndex(r) == HealthCheckDone(r, "elasticsearch", indexUp, "index_health")

\* redisService.ping: false for a failure
HealthRedis(r) == HealthCheckDone(r, "redis", redisUp, "cache_ping")

NextHealth ==
    \/ \E r \in Reqs : started < MaxStartedHealth /\ HealthStart(r)
    \/ \E r \in Reqs : HealthIndex(r)
    \/ \E r \in Reqs : HealthRedis(r)
    \/ IndexFail
    \/ IndexRecover
    \/ RedisFail
    \/ RedisRecover

SpecHealth == Init /\ [][NextHealth]_vars

\* the rate limiter on its own: reached with a tenant context, or without
\* one, while the counter store fails and recovers
MaxStartedLimiter == 4

\* rateLimiter without req.context: next() at once, and the route handler
\* throws AppError(400, 'Tenant ID is required')
LimiterWithoutContext(r, o) ==
    /\ ~InFlight(r)
    /\ started' = started + 1
    /\ req' = [req EXCEPT ![r] = [hdr |-> Undef, op |-> o.op, id |-> o.id,
                                  doc |-> o.doc, sq |-> o.sq]]
    /\ loc' = [loc EXCEPT ![r] = [NoLoc EXCEPT !.t = now, !.nexts = <<"next()">>]]
    /\ work' = [work EXCEPT ![r] = {}]
    /\ pc' = [pc EXCEPT ![r] = "done"]
    /\ resp' = [resp EXCEPT ![r] = Reply(400, Null)]
    /\ UNCHANGED <<now, redis, redisUp, index, indexUp, admitted, config, arg, ret>>

NextLimiter ==
    \/ \E r \in Reqs, o \in RateOps :
          started < MaxStartedLimiter /\ Start(r, TA, o)
    \/ \E r \in Reqs, o \in RateOps :
          started < MaxStartedLimiter /\ LimiterWithoutContext(r, o)
    \/ \E r \in Reqs : RateStep(r)
    \/ RedisFail
    \/ RedisRecover

\* a call of the counter store is answered, with a value or with an error
SpecLimiter ==
    /\ Init
    /\ [][NextLimiter]_vars
    /\ \A r \in Reqs : WF_vars(RlGet(r)) /\ WF_vars(RlSet(r))

\* a document indexed earlier, whose cache entry has expired since, read
\* and deleted by concurrent requests
DeleteOps == {o \in WriteOps : o.op \in {"get", "delete"}}

StoredDoc == CHOOSE d \in DocVersions : d.content = <<"x">>

InitDelete ==
    /\ now = 0
    /\ redis = <<>>
    /\ redisUp = TRUE
    /\ index = IndexPut(<<>>, TA, StoredDoc.id, StoredDoc, 0)
    /\ indexUp = TRUE
    /\ pc = [r \in Reqs |-> "idle"]
    /\ req = [r \in Reqs |-> NoReq]
    /\ loc = [r \in Reqs |-> NoLoc]
    /\ resp = [r \in Reqs |-> NoResp]
    /\ work = [r \in Reqs |-> {}]
    /\ admitted = <<>>
    /\ started = 0
    /\ config = DocConfig
    /\ arg = Null
    /\ ret = Null

DeleteStep(r) ==
    \/ RlGet(r)
    \/ RlSet(r)
    \/ DocCacheGet(r)
    \/ DocIndexGet(r)
    \/ DocCacheSet(r)
    \/ DeleteIndex(r)
    \/ InvalDoc(r)
    \/ InvalKeys(r)

NextDelete ==
    \/ \E r \in Reqs, o \in DeleteOps : started < MaxStartedDoc /\ Start(r, TA, o)
    \/ \E r \in Reqs : DeleteStep(r)

SpecDelete == InitDelete /\ [][NextDelete]_vars

-----------------------------------------------------------------------------
(* Claims *)

IsTenantTerm(c) == "term" \in DOMAIN c /\ c.term = "tenant_id"

\* C1: every plan built for a search carries the filter clause
\* tenant_id = <the validated X-Tenant-Id of the request>, and no other
\* tenant_id clause, whatever q, tag, author, from, to, offset and limit are.
C1_TenantFilterInPlan ==
    (ret # Null /\ ret.plan # Null) =>
        /\ TenantIdSchema(arg.hdr)
        /\ TenantClause(arg.hdr) \in Range(ret.plan.filter)
        /\ \A k \in 1..Len(ret.plan.filter) :
              IsTenantTerm(ret.plan.filter[k]) =>
                  ret.plan.filter[k] = TenantClause(arg.hdr)

\* a plan for a blank query text with every filter given and a limit
\* above the maximum
C1_Witness ==
    /\ ret # Null
    /\ ret.plan # Null
    /\ arg.raw.q = <<" ">>
    /\ arg.raw.tag # Undef /\ arg.raw.author # Undef
    /\ arg.raw.from # Undef /\ arg.raw.to # Undef
    /\ arg.raw.limit = <<"1", "0", "0">>
    /\ Len(ret.plan.filter) = 4

Answered(r) == pc[r] = "done" /\ resp[r].status = 200

\* C2: a search answered under tenant B has only hits made from documents
\* indexed under B, and a document read answered under B returns a document
\* of B, from the cache or from the index.
C2_TenantIsolation ==
    \A r \in Reqs :
        Answered(r) =>
            /\ req[r].op = "search" =>
                  \A k \in 1..Len(resp[r].body.results) :
                      resp[r].body.results[k].owner = TenantOf(r)
            /\ req[r].op = "get" => resp[r].body.tenantId = TenantOf(r)

\* a search is answered with a hit while the index also holds a document
\* of the other tenant
C2_Witness ==
    \E r \in Reqs :
        /\ Answered(r)
        /\ req[r].op = "search"
        /\ Len(resp[r].body.results) >= 1
        /\ \E i \in DOMAIN index : index[i].tenant_id # TenantOf(r)

\* C3: index ids are unique across tenants, so an index write or delete
\* made for one tenant leaves every document of another tenant in place.
C3_NoCrossTenantWrite ==
    [][\A i \in DOMAIN index :
          (i \notin DOMAIN index' \/ index'[i] # index[i]) =>
              \E r \in Reqs : /\ pc[r] \in {"p_index", "x_delete"}
                              /\ pc'[r] # pc[r]
                              /\ TenantOf(r) = index[i].tenant_id]_vars

AllKeys(ks) == {ks.search, ks.doc, ks.count}

\* C4: for two different valid tenant ids no search key, document key or
\* counter key of the one equals a key of the other, and the invalidation
\* pattern search:<A>:* matches no key of the other.
C4_KeysPartitionedByTenant ==
    (ret # Null /\ arg.ta # arg.tb) =>
        /\ AllKeys(ret.a) \cap AllKeys(ret.b) = {}
        /\ \A k \in AllKeys(ret.b) : ~GlobMatch(ret.pattern, k)
        /\ GlobMatch(ret.pattern, ret.a.search)

\* two tenants, one a prefix of the other, deriving keys for document ids
\* that contain the separators
C4_Witness ==
    /\ ret # Null
    /\ arg.ta = <<"a">> /\ arg.tb = <<"a", "_">>
    /\ arg.da = <<"_", ":">> /\ arg.db = <<":">>

\* C5 as stated: with requests handled one after another and a healthy
\* store, a call is admitted only while fewer than maxRequests calls were
\* admitted in the window of its timestamp, whenever its counter read
\* completes, and is rejected only when maxRequests were, with
\* retryAfterSeconds > 0.
C5_ExactlyFirstMaxAdmitted ==
    /\ pc[1] = "rl_set" => Admitted(WindowOf(1)) < config.maxRequests
    /\ resp[1].status = 429 =>
          /\ Admitted(WindowOf(1)) >= config.maxRequests
          /\ resp[1].retryAfter > 0

InWindow(r) == WindowStart(now) = WindowStart(loc[r].t)

\* C5: with requests handled one after another and a healthy store, a call
\* whose counter read completes inside the window of its timestamp is
\* admitted only while fewer than maxRequests calls were admitted in that
\* window, and is rejected only when maxRequests were, with
\* retryAfterSeconds > 0; so the first call of a new window is admitted.
C5_SequentialWindowLimit ==
    /\ (pc[1] = "rl_set" /\ InWindow(1)) =>
          Admitted(WindowOf(1)) < config.maxRequests
    /\ resp[1].status = 429 =>
          /\ Admitted(WindowOf(1)) >= config.maxRequests
          /\ resp[1].retryAfter > 0

\* the first window admitted maxRequests calls, and in the window after it
\* a call is rejected, after maxRequests calls were admitted there too
C5_Witness ==
    /\ resp[1].status = 429
    /\ WindowStart(loc[1].t) = config.windowMs
    /\ Admitted(<<TenantOf(1), 0>>) = config.maxRequests
    /\ Admitted(WindowOf(1)) = config.maxRequests

\* C6: under any interleaving, no more than maxRequests requests of one
\* tenant are admitted in one window.
C6_AdmittedWithinLimit ==
    \A w \in DOMAIN admitted : admitted[w] <= config.maxRequests

InLimiter(r) == pc[r] \in {"rl_get", "rl_set"}

\* C7: once no request of a tenant is inside the rate limiter, the stored
\* counter of the window equals the number of requests admitted in it.
C7_CounterEqualsAdmitted ==
    \A t \in Tenants :
        LET key == countKey(t, WindowStart(now)) IN
        (/\ \A r \in Reqs : ~(InLimiter(r) /\ TenantOf(r) = t)
         /\ key \in DOMAIN redis)
        => JsonParse(redis[key].val).num = Admitted(<<t, WindowStart(now)>>)

\* C8: a request for which a counter-store call failed is never answered
\* 429, and once answered it has gone on into its route handler and got
\* the handler's own answer, no error of the counter store.
C8_FailOpen ==
    \A r \in Reqs :
        loc[r].rlFail =>
            /\ resp[r].status # 429
            /\ pc[r] = "done" =>
                  /\ "cache_get" \in work[r]
                  /\ resp[r].status \in {200, 404}

\* a request is admitted through a failed counter read although the stored
\* counter has reached the limit
C8_Witness ==
    \E r \in Reqs :
        /\ loc[r].rlFail
        /\ pc[r] = "done"
        /\ resp[r].status = 404
        /\ loc[r].count = 0
        /\ CountKeyOf(r) \in DOMAIN redis
        /\ JsonParse(redis[CountKeyOf(r)].val).num >= config.maxRequests

\* C9: a request answered 429 is finished and has made no call but the
\* counter read: no counter write, no cache call, no index call.
C9_RejectedDoesNoWork ==
    \A r \in Reqs :
        resp[r].status = 429 => pc[r] = "done" /\ work[r] = {"counter_get"}

\* a document mutation is rejected
C9_Witness ==
    \E r \in Reqs : resp[r].status = 429 /\ req[r].op \in {"post", "delete"}

\* C10: a step of a request that is answered 429 leaves the key-value
\* store as it was: no counter is written and no expiry is changed.
C10_RejectionLeavesStore ==
    [][\A r \in Reqs :
          (pc'[r] # pc[r] /\ resp'[r].status = 429) => redis' = redis]_vars

\* a request is rejected at a time at which a refresh would have moved the
\* counter's expiry
C10_Witness ==
    \E r \in Reqs :
        /\ resp[r].status = 429
        /\ CountKeyOf(r) \in DOMAIN redis
        /\ redis[CountKeyOf(r)].exp < loc[r].t + CounterTtl * 1000

\* C11: a rejected request reports the least whole number of seconds that
\* covers the time left until the window of its timestamp ends, and that
\* number is at least 1 and at most the window size in seconds rounded up.
C11_RetryAfterBounds ==
    \A r \in Reqs :
        resp[r].status = 429 =>
            LET w    == config.windowMs
                left == (loc[r].t \div w) * w + w - loc[r].t
                ra   == resp[r].retryAfter
            IN /\ ra * 1000 >= left
               /\ (ra - 1) * 1000 < left
               /\ ra >= 1
               /\ (ra - 1) * 1000 < w

\* a request rejected exactly at a boundary of a window of 1001 ms, so that
\* the whole window is left and it lasts more than one second
C11_Witness ==
    \E r \in Reqs :
        /\ resp[r].status = 429
        /\ config.windowMs = 1001
        /\ loc[r].t = 2002
        /\ resp[r].retryAfter = 2

AtBoundary(r) == loc[r].t % config.windowMs = 0

StoredCount(store, key) ==
    IF key \in DOMAIN store THEN JsonParse(store[key].val).num ELSE 0

\* C12: a request whose timestamp is a multiple of the window size reads and
\* writes the counter keyed by that timestamp: it is rejected only when that
\* counter has reached the limit, whatever the previous window counted, and
\* its counter write touches that key and no other.
C12_BoundaryCountsInNewWindow ==
    [][\A r \in Reqs :
          (AtBoundary(r) /\ pc'[r] # pc[r]) =>
              LET key == countKey(TenantOf(r), loc[r].t) IN
              /\ pc[r] = "rl_get" =>
                    /\ loc'[r].count = StoredCount(redis, key)
                    /\ resp'[r].status = 429 <=>
                          StoredCount(redis, key) >= config.maxRequests
              /\ pc[r] = "rl_set" =>
                    /\ key \in DOMAIN redis'
                    /\ \A k \in DOMAIN redis' \ {key} :
                          k \in DOMAIN redis /\ redis'[k] = redis[k]]_vars

\* a request arriving at the boundary after a window that admitted
\* maxRequests requests is admitted as the first request of the new window
C12_Witness ==
    /\ loc[1].t = config.windowMs
    /\ "counter_set" \in work[1]
    /\ Admitted(<<TenantOf(1), 0>>) = config.maxRequests
    /\ Admitted(WindowOf(1)) = 1
    /\ StoredCount(redis, countKey(TenantOf(1), config.windowMs)) = 1

\* C13: a counter that is missing is read as 0; the counter write of an
\* admitted request that read c stores c + 1, and the request reports
\* remaining = max(0, maxRequests - (c + 1)).
C13_IncrementAndRemaining ==
    [][\A r \in Reqs :
          pc'[r] # pc[r] =>
              /\ (pc[r] = "rl_get" /\ CountKeyOf(r) \notin DOMAIN redis) =>
                    loc'[r].count = 0 /\ pc'[r] = "rl_set"
              /\ pc[r] = "rl_set" =>
                    LET c    == loc[r].count
                        left == config.maxRequests - (c + 1)
                    IN /\ StoredCount(redis', CountKeyOf(r)) = c + 1
                       /\ resp'[r].remaining = IF left > 0 THEN left ELSE 0]_vars

\* the first request of the second window stores 1 and has
\* maxRequests - 1 left, and the last admitted one has had 0 left
C13_Witness ==
    /\ WindowStart(loc[1].t) = config.windowMs
    /\ "counter_set" \in work[1]
    /\ loc[1].count = 0
    /\ StoredCount(redis, CountKeyOf(1)) = 1
    /\ resp[1].remaining = config.maxRequests - 1
    /\ Admitted(<<TenantOf(1), 0>>) = config.maxRequests

SearchKeyOfReq(r) == SearchKeyOf(TenantOf(r), SearchQuery(req[r].sq))

\* C14: when the cache check of a search finds its key, that step answers
\* the request with the cached response and leaves cache and index as they
\* are; the request has made no index search and no cache write.
C14_HitReturnsAtOnce ==
    [][\A r \in Reqs :
          (/\ pc[r] = "s_cache_get"
           /\ pc'[r] # pc[r]
           /\ redisUp
           /\ SearchKeyOfReq(r) \in DOMAIN redis) =>
              /\ pc'[r] = "done"
              /\ resp'[r].status = 200
              /\ resp'[r].body = JsonParse(redis[SearchKeyOfReq(r)].val)
              /\ work'[r] \cap {"index_search", "cache_set"} = {}
              /\ redis' = redis
              /\ index' = index]_vars

\* a search answered from the cache with a hit in its results
C14_Witness ==
    \E r \in Reqs :
        /\ Answered(r)
        /\ req[r].op = "search"
        /\ work[r] = {"counter_get", "counter_set", "cache_get"}
        /\ Len(resp[r].body.results) >= 1

\* the response is one for the request's own tenant, text, offset and limit
ResponseFor(r, body) ==
    /\ body.tenantId = TenantOf(r)
    /\ body.query = OrElse(req[r].sq.q, <<>>)
    /\ body.offset = SearchQuery(req[r].sq).offset
    /\ body.limit = SearchQuery(req[r].sq).limit

\* C15: a search that missed the cache has queried the index; with a healthy
\* cache its last step stores the response it returns under the key of its
\* own (tenant, query, filters, offset, limit), to expire after the search
\* TTL; a later search that finds that key is answered with what was
\* stored, a response for its own tenant and parameters.  Until then the
\* entry stays as stored unless it expires, an index write of the tenant
\* invalidates it, or a search of the same key stores it again.
C15_MissThenHit ==
    [][/\ \A k \in DOMAIN redis :
             (k \notin DOMAIN redis' \/ redis'[k] # redis[k]) =>
                 \/ now' >= redis[k].exp
                 \/ \E r \in Reqs : pc[r] = "inval_del" /\ pc'[r] # pc[r]
                 \/ \E r \in Reqs : /\ pc[r] = "s_cache_set" /\ pc'[r] # pc[r]
                                     /\ k = SearchKeyOfReq(r)
                 \/ \E r \in Reqs : /\ pc[r] = "rl_set" /\ pc'[r] # pc[r]
                                     /\ k = CountKeyOf(r)
       /\ \A r \in Reqs :
          (pc'[r] # pc[r] /\ redisUp) =>
              LET key == SearchKeyOfReq(r) IN
              /\ pc[r] = "s_cache_set" =>
                    /\ "index_search" \in work[r]
                    /\ resp'[r].status = 200
                    /\ ResponseFor(r, resp'[r].body)
                    /\ key \in DOMAIN redis'
                    /\ JsonParse(redis'[key].val) = resp'[r].body
                    /\ redis'[key].exp = now + config.searchTtlSeconds * 1000
                    /\ \A k \in DOMAIN redis' \ {key} :
                          k \in DOMAIN redis /\ redis'[k] = redis[k]
              /\ (pc[r] = "s_cache_get" /\ key \in DOMAIN redis) =>
                    /\ resp'[r].body = JsonParse(redis[key].val)
                    /\ ResponseFor(r, resp'[r].body)
                    /\ redis[key].exp > now
                    /\ redis[key].exp <= now + config.searchTtlSeconds * 1000
              /\ (pc[r] = "s_cache_get" /\ key \notin DOMAIN redis) =>
                    pc'[r] = "s_search"]_vars

\* a second search, one second after the first one cached its response,
\* answered from the cache while the index holds a matching document
C15_Witness ==
    \E r \in Reqs :
        /\ Answered(r)
        /\ req[r].op = "search"
        /\ "index_search" \notin work[r]
        /\ loc[r].t = TickMs
        /\ SearchKeyOfReq(r) \in DOMAIN redis
        /\ redis[SearchKeyOfReq(r)].exp = config.searchTtlSeconds * 1000
        /\ Len(resp[r].body.results) >= 1

\* C16: a search whose index call fails ends in that step with an error
\* response; neither its cache check nor that step changes the key-value
\* store, and it makes no cache write.
C16_IndexFailureNotCached ==
    [][/\ \A r \in Reqs :
             (pc[r] = "s_search" /\ pc'[r] # pc[r] /\ ~indexUp) =>
                 /\ pc'[r] = "done"
                 /\ resp'[r].status = 500
                 /\ resp'[r].body = Null
                 /\ redis' = redis
       /\ \A r \in Reqs :
             (pc[r] = "s_cache_get" /\ pc'[r] # pc[r]) => redis' = redis
       /\ \A r \in Reqs :
             (req[r].op = "search" /\ resp[r].status = 500) =>
                 pc[r] = "done" /\ "cache_set" \notin work[r]]_vars

\* a search failed at the index while the cache holds a search response
C16_Witness ==
    \E r \in Reqs :
        /\ req[r].op = "search"
        /\ resp[r].status = 500
        /\ "index_search" \in work[r]
        /\ \E raw \in SearchInputs :
              SearchKeyOf(TenantOf(r), SearchQuery(raw)) \in DOMAIN redis

\* C17: while the key-value store fails, the cache check of a search counts
\* as a miss and sends the search to the index; the index is asked with a
\* plan that carries the tenant filter, and the failed cache write still
\* answers 200 with the response built from what the index returned, hits
\* of the tenant's own documents only.
C17_SearchSurvivesCacheOutage ==
    [][\A r \in Reqs :
          pc'[r] # pc[r] =>
              /\ (pc[r] = "s_cache_get" /\ ~redisUp) =>
                    pc'[r] = "s_search" /\ resp'[r] = resp[r]
              /\ (pc[r] = "s_search" /\ indexUp) =>
                    /\ pc'[r] = "s_cache_set"
                    /\ TenantClause(TenantOf(r)) \in Range(loc'[r].plan.filter)
                    /\ loc'[r].val =
                          SearchResponse(TenantOf(r), SearchQuery(req[r].sq),
                              ExecuteSearch(index, loc'[r].plan,
                                            OrElse(req[r].sq.q, <<>>)))
              /\ (pc[r] = "s_cache_set" /\ ~redisUp) =>
                    /\ pc'[r] = "done"
                    /\ resp'[r].status = 200
                    /\ resp'[r].body = loc[r].val
                    /\ \A k \in 1..Len(resp'[r].body.results) :
                          resp'[r].body.results[k].owner = TenantOf(r)
                    /\ redis' = redis]_vars

\* a search answered with a hit from the index while the key-value store
\* is down and holds nothing: no counter and no cache entry was ever written
C17_Witness ==
    \E r \in Reqs :
        /\ Answered(r)
        /\ req[r].op = "search"
        /\ "cache_set" \in work[r]
        /\ Len(resp[r].body.results) >= 1
        /\ ~redisUp
        /\ redis = <<>>
        /\ now = 0

IsWrite(r) == req[r].op \in {"post", "delete"}

InvalidationCalls == {"cache_keys", "cache_del"}

\* C18: a request that writes or deletes a document makes its index call
\* before any invalidation call; when the index call fails the request ends
\* there with an error, index and cache unchanged, and makes no invalidation
\* call; when it succeeds the invalidation follows.
C18_IndexMutationFirst ==
    [][/\ \A r \in Reqs :
             (pc[r] \in {"p_index", "x_delete"} /\ pc'[r] # pc[r]) =>
                 /\ work[r] \cap InvalidationCalls = {}
                 /\ redis' = redis
                 /\ IF indexUp
                    THEN pc'[r] \in {"inval_keys", "x_inval_doc"}
                    ELSE /\ pc'[r] = "done"
                         /\ resp'[r].status = 500
                         /\ index' = index
       /\ \A r \in Reqs :
             (IsWrite(r) /\ work[r] \cap InvalidationCalls # {}) =>
                 /\ work[r] \cap {"index_put", "index_delete"} # {}
                 /\ resp[r].status # 500
       /\ \A r \in Reqs :
             (IsWrite(r) /\ resp[r].status = 500) =>
                 pc[r] = "done" /\ work[r] \cap InvalidationCalls = {}]_vars

\* an index write failed and was answered with an error while the cache
\* holds the document and a search response of the tenant
C18_Witness ==
    \E r \in Reqs :
        /\ req[r].op = "post"
        /\ resp[r].status = 500
        /\ "index_put" \in work[r]
        /\ getDocumentKey(TenantOf(r), <<"c">>) \in DOMAIN redis
        /\ RedisKeys(searchPattern(TenantOf(r))) # {}

\* C19: with requests handled one after another, a document read that is
\* answered returns the document as the index holds it: after an index
\* write of (t, i) has completed, no read of (t, i) is answered with the
\* value cached before that write.
C19_ReadSeesLastWrite ==
    (Answered(1) /\ req[1].op = "get") =>
        resp[1].body = getDocument(index, TenantOf(1), req[1].id)

\* C20: with no index write after the delete, a document read that arrived
\* while no other request was being handled, so after every delete had
\* completed, and while its document was not in the index, is not answered
\* with a document: once answered it is answered not found.
C20_NoReadOfDeletedFromCache ==
    \A r \in Reqs :
        (req[r].op = "get" /\ loc[r].quiet) =>
            /\ resp[r].status # 200
            /\ pc[r] = "done" => resp[r].status = 404

HasPrefix(p, k) == Len(p) <= Len(k) /\ SubSeq(k, 1, Len(p)) = p

\* the keys of the store that begin with search:<tenant of r>:
SearchKeysOf(store, r) ==
    {k \in DOMAIN store : HasPrefix(SearchPrefix \o TenantOf(r) \o <<":">>, k)}

\* C22: with a healthy store, the first step of the invalidation finds
\* exactly the keys that begin with search:<tenant>:, and when there is none
\* the request completes with its success response without a delete; the
\* second step removes the keys found and nothing else, so that, unless a
\* search of the tenant wrote the cache in between, no key with that prefix
\* is left and every other key is as it was.
C22_InvalidateTenantSearches ==
    [][\A r \in Reqs :
          pc'[r] # pc[r] =>
              /\ pc[r] = "inval_keys" =>
                    /\ redis' = redis
                    /\ IF SearchKeysOf(redis, r) = {}
                       THEN /\ pc'[r] = "done"
                            /\ resp'[r].status \in {200, 201}
                            /\ "cache_del" \notin (work'[r] \ work[r])
                       ELSE /\ pc'[r] = "inval_del"
                            /\ loc'[r].keys = SearchKeysOf(redis, r)
              /\ pc[r] = "inval_del" =>
                    /\ DOMAIN redis' = DOMAIN redis \ loc[r].keys
                    /\ \A k \in DOMAIN redis' : redis'[k] = redis[k]
                    /\ SearchKeysOf(redis, r) \subseteq loc[r].keys =>
                          SearchKeysOf(redis', r) = {}
                    /\ pc'[r] = "done"
                    /\ resp'[r].status \in {200, 201}]_vars

\* an index write has invalidated the searches of its tenant, and the store
\* still holds a search response of the other tenant
C22_Witness ==
    \E r \in Reqs :
        /\ req[r].op = "post"
        /\ pc[r] = "done"
        /\ "cache_del" \in work[r]
        /\ SearchKeysOf(redis, r) = {}
        /\ \E k \in DOMAIN redis : HasPrefix(SearchPrefix, k)

StaleDocKey == getDocumentKey(TA, <<"c">>)

StaleKeys == {StaleDocKey, SearchKeyOf(TA, SearchQuery(NoParams))}

\* what the index holds for the request whose response is cached under k
IndexAnswer(k) ==
    IF k = StaleDocKey
    THEN getDocument(index, TA, <<"c">>)
    ELSE LET query == SearchQuery(NoParams) IN
         SearchResponse(TA, query,
                        ExecuteSearch(index, BuildPlan(TA, query), query.q))

Disagrees(k) == k \in DOMAIN redis /\ JsonParse(redis[k].val) # IndexAnswer(k)

TtlOf(k) == IF k = StaleDocKey THEN config.ttlSeconds ELSE config.searchTtlSeconds

PositiveTtl == config.ttlSeconds > 0 /\ config.searchTtlSeconds > 0

C24_DeleteOfMissingIsNoError ==
    [][\A r \in Reqs :
          /\ (/\ pc[r] = "x_delete" /\ pc'[r] # pc[r] /\ indexUp) =>
                /\ pc'[r] = "x_inval_doc"
                /\ loc'[r].deleted = (indexId(TenantOf(r), req[r].id) \in DOMAIN index)
                /\ ~loc'[r].deleted => index' = index
          /\ (pc[r] = "x_inval_doc" /\ pc'[r] # pc[r]) =>
                /\ pc'[r] = "inval_keys"
                /\ getDocumentKey(TenantOf(r), req[r].id) \notin DOMAIN redis'
          /\ (/\ req[r].op = "delete" /\ pc[r] \in {"inval_keys", "inval_del"}
              /\ pc'[r] # pc[r] /\ pc'[r] # "inval_del") =>
                /\ pc'[r] = "done"
                /\ resp'[r].status = 200
                /\ resp'[r].body.status =
                      IF loc[r].deleted THEN "deleted" ELSE "not_found_or_deleted"
                /\ {"index_delete", "cache_del", "cache_keys"} \subseteq work'[r]]_vars

\* a delete of an id the index did not hold has been answered after the
\* cache was invalidated: no document and no search response is cached
C24_Witness ==
    \E r \in Reqs :
        /\ req[r].op = "delete" /\ pc[r] = "done" /\ resp[r].status = 200
        /\ resp[r].body.status = "not_found_or_deleted"
        /\ work[r] = {"counter_get", "counter_set", "index_delete", "cache_del",
                      "cache_keys"}
        /\ \A k \in DOMAIN redis :
              ~HasPrefix(SearchPrefix, k) /\ k # StaleDocKey

\* C25: once the index write of a POST or DELETE has succeeded, no step of
\* the invalidation touches the index, a step taken while the cache store is
\* down leaves the store as it is, and the step that ends the request
\* answers it with its success response while the index holds the document
\* written, or no longer holds the document deleted.
C25_CacheFailureNeverFailsWrite ==
    [][(/\ pc[1] \in {"x_inval_doc", "inval_keys", "inval_del"}
        /\ pc'[1] # pc[1]) =>
          /\ index' = index
          /\ ~redisUp => redis' = redis
          /\ pc'[1] \in {"inval_keys", "inval_del", "done"}
          /\ pc'[1] = "done" =>
                /\ resp'[1].status = IF req[1].op = "post" THEN 201 ELSE 200
                /\ resp'[1].body.status \in
                      IF req[1].op = "post" THEN {"indexed"}
                      ELSE {"deleted", "not_found_or_deleted"}
                /\ IF req[1].op = "post"
                   THEN /\ getDocument(index', TA, req[1].doc.id) # Null
                        /\ getDocument(index', TA, req[1].doc.id).content =
                              req[1].doc.content
                   ELSE getDocument(index', TA, req[1].id) = Null]_vars

\* a POST answered 201 although its invalidation failed: the search response
\* cached before it is still in the store
C25_Witness ==
    /\ req[1].op = "post" /\ pc[1] = "done" /\ resp[1].status = 201
    /\ "cache_keys" \in work[1]
    /\ SearchKeysOf(redis, 1) # {}
    /\ ~redisUp

\* the index entry that a read of request r fetches belongs to another tenant
TenantMismatch(r) ==
    /\ indexId(TenantOf(r), req[r].id) \in DOMAIN index
    /\ index[indexId(TenantOf(r), req[r].id)].tenant_id # TenantOf(r)

\* C26: the index fetch of a document read that finds an entry of another
\* tenant and the fetch that finds no entry have one and the same outcome:
\* the null that the index service returns without the entry, the request
\* answered 404 with an empty body, nothing written to the cache, and the
\* index, the request's locals and the other requests untouched.
C26_MismatchLooksAbsent ==
    [][\A r \in Reqs :
          (/\ pc[r] = "d_fetch" /\ pc'[r] # pc[r]
           /\ \/ TenantMismatch(r)
              \/ indexId(TenantOf(r), req[r].id) \notin DOMAIN index) =>
              LET without == IndexDelete(index, TenantOf(r), req[r].id) IN
              /\ getDocument(index, TenantOf(r), req[r].id) =
                    getDocument(without, TenantOf(r), req[r].id)
              /\ pc'[r] = "done"
              /\ resp'[r] = [resp[r] EXCEPT !.status = 404, !.body = Null]
              /\ redis' = redis
              /\ index' = index
              /\ loc' = loc
              /\ \A r2 \in Reqs \ {r} : pc'[r2] = pc[r2] /\ resp'[r2] = resp[r2]]_vars

\* a read answered not found from the index while the index holds, under
\* the id it fetched, a document of the other tenant; the cache has no
\* document
C26_Witness ==
    \E r \in Reqs :
        /\ req[r].op = "get" /\ pc[r] = "done" /\ resp[r].status = 404
        /\ "index_get" \in work[r]
        /\ TenantMismatch(r)
        /\ \A k \in DOMAIN redis : ~HasPrefix(DocPrefix, k)

DocKeyOfReq(r) == getDocumentKey(TenantOf(r), req[r].id)

\* C27: the cache check of a document read that finds its key answers the
\* request with the cached document, without an index call and leaving cache
\* and index as they are; one that finds no key goes on to the index. A
\* document found there is written under doc:<tenant>:<id>, expiring the
\* document TTL from now, and returned; when none is found the request is
\* answered 404 and nothing is written to the cache.
C27_DocumentCacheAside ==
    [][\A r \in Reqs :
          pc'[r] # pc[r] =>
              /\ pc[r] = "d_cache_get" =>
                    IF DocKeyOfReq(r) \in DOMAIN redis
                    THEN /\ pc'[r] = "done"
                         /\ resp'[r].status = 200
                         /\ resp'[r].body = JsonParse(redis[DocKeyOfReq(r)].val)
                         /\ redis' = redis
                         /\ index' = index
                         /\ work'[r] \cap {"index_get", "cache_set"} = {}
                    ELSE /\ pc'[r] = "d_fetch"
                         /\ redis' = redis
              /\ (pc[r] = "d_fetch" /\ indexUp) =>
                    /\ "index_get" \in work'[r]
                    /\ redis' = redis
                    /\ IF getDocument(index, TenantOf(r), req[r].id) # Null
                       THEN /\ pc'[r] = "d_cache_set"
                            /\ loc'[r].val =
                                  getDocument(index, TenantOf(r), req[r].id)
                       ELSE /\ pc'[r] = "done"
                            /\ resp'[r].status = 404
                            /\ "cache_set" \notin work'[r]
              /\ pc[r] = "d_cache_set" =>
                    /\ DOMAIN redis' = DOMAIN redis \cup {DocKeyOfReq(r)}
                    /\ redis'[DocKeyOfReq(r)] =
                          [val |-> JsonStringify(loc[r].val),
                           exp |-> now + config.ttlSeconds * 1000]
                    /\ \A k \in DOMAIN redis \ {DocKeyOfReq(r)} : redis'[k] = redis[k]
                    /\ pc'[r] = "done"
                    /\ resp'[r].status = 200
                    /\ resp'[r].body = loc[r].val]_vars

\* two reads of one document answered alike, the first from the index and
\* the second from the cache
C27_Witness ==
    /\ \A r \in Reqs : req[r].op = "get" /\ pc[r] = "done" /\ resp[r].status = 200
    /\ resp[1].body = resp[2].body
    /\ work[1] = {"counter_get", "counter_set", "cache_get", "index_get", "cache_set"}
    /\ work[2] = {"counter_get", "counter_set", "cache_get"}

\* the parameters with the limit replaced by 50
WithMaxLimit(raw) == [raw EXCEPT !.limit = NumToStr(MaxLimit)]

LimitAbove(raw, n) ==
    raw.limit # Undef /\ IsDigits(raw.limit) /\ StrToNum(raw.limit) > n

\* C28: a search whose limit is above 50 is answered when the same search
\* with limit 50 is, under the same cache key, with the same plan and with
\* limit 50 in its response; and the size of every plan is between 1 and 50.
C28_LimitClamped ==
    ret # Null =>
        /\ ret.status = 200 => ret.plan.size \in 1..MaxLimit
        /\ LimitAbove(arg.raw, MaxLimit) =>
              /\ ret.status =
                    IF /\ Truthy(arg.hdr) /\ TenantIdSchema(arg.hdr)
                       /\ SearchQueryValid(WithMaxLimit(arg.raw))
                    THEN 200 ELSE 400
              /\ ret.status = 200 =>
                    LET query == SearchQuery(WithMaxLimit(arg.raw)) IN
                    /\ ret.key = SearchKeyOf(arg.hdr, query)
                    /\ ret.plan = BuildPlan(arg.hdr, query)
                    /\ ret.plan.size = MaxLimit
                    /\ ret.limit = MaxLimit

C28_Witness ==
    /\ ret # Null /\ ret.status = 200
    /\ arg.raw.limit = <<"1", "0", "0">>
    /\ ret.limit = MaxLimit /\ ret.plan.size = MaxLimit

\* the number of clauses of the list that are the clause c
Occurrences(list, c) == Cardinality({i \in 1..Len(list) : list[i] = c})

\* a filter parameter given with a value; an empty value counts as absent
Given(p) == p # Undef /\ p # <<>>

\* C29: the filter list of every plan is the tenant clause together with
\* exactly one term clause on tags when a tag is given, exactly one term
\* clause on metadata.author when an author is given, and exactly one range
\* clause on created_at, carrying both ends, when from or to is given, and
\* nothing else; the plan has a must list of one text clause and a filter
\* list, and no other list of clauses.
C29_OneClausePerFilter ==
    (ret # Null /\ ret.status = 200) =>
        LET raw == arg.raw
            filter == ret.plan.filter
            tagClause == [term |-> "tags", value |-> raw.tag]
            authorClause == [term |-> "metadata.author", value |-> raw.author]
            rangeClause ==
                [range |-> "created_at",
                 gte |-> IF Given(raw.from) THEN raw.from ELSE Undef,
                 lte |-> IF Given(raw.to) THEN raw.to ELSE Undef]
            One(b) == IF b THEN 1 ELSE 0
        IN /\ DOMAIN ret.plan = {"must", "filter", "from", "size"}
           /\ Len(ret.plan.must) = 1
           /\ DOMAIN ret.plan.must[1] \in {{"multi_match"}, {"match_all"}}
           /\ Occurrences(filter, TenantClause(arg.hdr)) = 1
           /\ Occurrences(filter, tagClause) = One(Given(raw.tag))
           /\ Occurrences(filter, authorClause) = One(Given(raw.author))
           /\ Occurrences(filter, rangeClause) =
                 One(Given(raw.from) \/ Given(raw.to))
           /\ Len(filter) = 1 + One(Given(raw.tag)) + One(Given(raw.author))
                              + One(Given(raw.from) \/ Given(raw.to))

\* every filter given: the tenant clause and three more
C29_Witness ==
    /\ ret # Null /\ ret.status = 200
    /\ Given(arg.raw.tag) /\ Given(arg.raw.author)
    /\ Given(arg.raw.from) /\ Given(arg.raw.to)
    /\ Len(ret.plan.filter) = 4

\* a query text that is absent, empty or made of whitespace only
BlankText(q) == q = Undef \/ Trim(q) = <<>>

InvalidHeader(h) ==
    \/ h = Undef
    \/ Len(h) = 0
    \/ Len(h) > 100
    \/ \E i \in 1..Len(h) : h[i] \notin TenantChars

\* C31: a request whose X-Tenant-Id header is missing, empty, too long or
\* has a character outside the class is answered 400 by the step that
\* receives it, which leaves counter store, cache and index as they are; the
\* request makes no call to any of them. A request with any other header is
\* passed on to the rate limiter.
C31_NoRequestWithoutTenant ==
    [][\A r \in Reqs :
          (req'[r] # req[r] \/ (pc[r] \in {"idle", "done"} /\ pc'[r] # pc[r])) =>
              IF InvalidHeader(req'[r].hdr)
              THEN /\ pc'[r] = "done"
                   /\ resp'[r].status = 400
                   /\ work'[r] = {}
                   /\ redis' = redis
                   /\ index' = index
              ELSE pc'[r] = "rl_get"]_vars

\* requests with each kind of bad header answered 400 with no work done,
\* while a request with the longest id allowed is at the rate limiter
C31_Witness ==
    /\ req[1].op # "none" /\ Len(req[1].hdr) = MaxTenantIdLen + 1
    /\ pc[1] = "done" /\ resp[1].status = 400 /\ work[1] = {}
    /\ req[2].hdr = LongestTenantId /\ "counter_get" \in work[2]

\* an offset or a limit that is given and is not a string of decimal digits
BadPaging(raw) ==
    \/ raw.offset # Undef /\ ~(Len(raw.offset) >= 1 /\ Range(raw.offset) \subseteq DigitChars)
    \/ raw.limit # Undef /\ ~(Len(raw.limit) >= 1 /\ Range(raw.limit) \subseteq DigitChars)

\* the documents and search responses of the cache store
CacheEntries(store) ==
    [k \in {x \in DOMAIN store : HasPrefix(SearchPrefix, x) \/ HasPrefix(DocPrefix, x)} |->
        store[k]]

\* C32: a search whose offset or limit is given and is not a non-negative
\* decimal integer is answered 400 by the step that hands it from the rate
\* limiter to the route; no step of the request changes the index or the
\* cached documents and search responses, and the request makes no cache
\* call and no index call.
C32_BadPagingRejected ==
    [][\A r \in Reqs :
          (/\ req[r].op = "search" /\ BadPaging(req[r].sq)
           /\ InFlight(r) /\ pc'[r] # pc[r]) =>
              /\ pc[r] \in {"rl_get", "rl_set"}
              /\ pc[r] = "rl_set" => pc'[r] = "done" /\ resp'[r].status = 400
              /\ index' = index
              /\ CacheEntries(redis') = CacheEntries(redis)
              /\ work'[r] \subseteq {"counter_get", "counter_set"}]_vars

\* a search with offset -1 answered 400 while the index holds a document
\* and the cache a search response
C32_Witness ==
    \E r \in Reqs :
        /\ req[r].op = "search" /\ req[r].sq.offset = <<"-", "1">>
        /\ req[r].sq.limit = Undef
        /\ pc[r] = "done" /\ resp[r].status = 400
        /\ work[r] = {"counter_get", "counter_set"}
        /\ index # <<>>
        /\ \E k \in DOMAIN redis : HasPrefix(SearchPrefix, k)

\* C33: the check of a dependency records UP exactly when the dependency is
\* healthy as the check completes; a health response reports each
\* dependency as its check recorded it, has status UP exactly when both are
\* UP, DOWN exactly when neither is and DEGRADED otherwise, and is sent with
\* 503 exactly when the status is DOWN and with 200 otherwise.
C33_HealthStatus ==
    [][\A r \in Reqs :
          (req[r].op = "health" /\ pc[r] = "h_checks" /\ loc'[r] # loc[r]) =>
              LET was == loc[r].val
                  is == loc'[r].val
                  up == {d \in DOMAIN is : is[d] = "UP"}
              IN /\ (was.elasticsearch = Pending /\ is.elasticsearch # Pending) =>
                       (is.elasticsearch = "UP") = indexUp
                 /\ (was.redis = Pending /\ is.redis # Pending) =>
                       (is.redis = "UP") = redisUp
                 /\ \A d \in DOMAIN was : was[d] # Pending => is[d] = was[d]
                 /\ pc'[r] = "done" =>
                       /\ resp'[r].body.dependencies = is
                       /\ Pending \notin Range(is)
                       /\ (resp'[r].body.status = "UP") =
                             (up = {"elasticsearch", "redis"})
                       /\ (resp'[r].body.status = "DOWN") = (up = {})
                       /\ (resp'[r].body.status = "DEGRADED") =
                             (up # {} /\ up # {"elasticsearch", "redis"})
                       /\ (resp'[r].status = 503) = (resp'[r].body.status = "DOWN")
                       /\ (resp'[r].status = 200) = (resp'[r].body.status # "DOWN")]_vars

\* the three statuses: a health request answered DEGRADED with 200 next to
\* one answered DOWN with 503
C33_Witness ==
    /\ req[1].op = "health" /\ pc[1] = "done"
    /\ resp[1].status = 200 /\ resp[1].body.status = "DEGRADED"
    /\ resp[1].body.dependencies = [elasticsearch |-> "DOWN", redis |-> "UP"]
    /\ req[2].op = "health" /\ pc[2] = "done"
    /\ resp[2].status = 503 /\ resp[2].body.status = "DOWN"

\* the keys of the rate-limit counters
CounterKeys(store) == {k \in DOMAIN store : HasPrefix(RateLimitPrefix, k)}

\* C34: every rate-limit counter in the store holds a number between 1 and
\* maxRequests.
C34_CounterWithinLimit ==
    \A k \in CounterKeys(redis) :
        /\ JsonParse(redis[k].val).num >= 1
        /\ JsonParse(redis[k].val).num <= config.maxRequests

\* a window in which racing requests were admitted beyond the limit, its
\* counter at the limit
C34_Witness ==
    \E w \in DOMAIN admitted :
        /\ admitted[w] > config.maxRequests
        /\ countKey(w[1], w[2]) \in DOMAIN redis
        /\ JsonParse(redis[countKey(w[1], w[2])].val).num = config.maxRequests

\* the counters of a tenant
CountersOf(store, t) ==
    {k \in DOMAIN store : HasPrefix(RateLimitPrefix \o t \o <<":">>, k)}

\* C35: a step of a request of one tenant leaves every counter of every
\* other tenant as it is, and the limiter's decision on a request is taken
\* from the counter of the request's own tenant and window alone: the
\* request is rejected exactly when that counter has reached maxRequests.
C35_TenantsLimitedIndependently ==
    [][\A r \in Reqs :
          (InFlight(r) /\ pc'[r] # pc[r]) =>
              /\ \A k \in CounterKeys(redis) \cup CounterKeys(redis') :
                    k \notin CountersOf(redis, TenantOf(r))
                               \cup CountersOf(redis', TenantOf(r)) =>
                        /\ k \in DOMAIN redis /\ k \in DOMAIN redis'
                        /\ redis'[k] = redis[k]
              /\ pc[r] = "rl_get" =>
                    LET own == countKey(TenantOf(r), WindowStart(loc[r].t)) IN
                    /\ HasPrefix(RateLimitPrefix \o TenantOf(r) \o <<":">>, own)
                    /\ (pc'[r] = "done" /\ resp'[r].status = 429) =
                          (StoredCount(redis, own) >= config.maxRequests)
                    /\ (pc'[r] = "rl_set") =
                          (StoredCount(redis, own) < config.maxRequests)]_vars

\* one tenant has used up its budget and a request of the other tenant is
\* admitted in the same window
C35_Witness ==
    \E r \in Reqs :
        /\ TenantOf(r) = TB /\ "counter_set" \in work[r]
        /\ StoredCount(redis, countKey(TA, 0)) = config.maxRequests
        /\ StoredCount(redis, countKey(TB, 0)) = 1

\* C36: a request inside the rate limiter has had no decision yet and
\* eventually leaves the limiter; a request that has left it has had the
\* continuation invoked exactly once, with the 429 error exactly when it is
\* answered 429 and without an error otherwise.
C36_OneDecision ==
    /\ [](\A r \in Reqs :
            /\ Len(loc[r].nexts) <= 1
            /\ InLimiter(r) => loc[r].nexts = <<>>
            /\ (req[r].op # "none" /\ ~InLimiter(r)) =>
                  /\ Len(loc[r].nexts) = 1
                  /\ (loc[r].nexts[1] = "next(error)") =
                        (pc[r] = "done" /\ resp[r].status = 429)
                  /\ loc[r].nexts[1] \in {"next()", "next(error)"})
    /\ \A r \in Reqs : InLimiter(r) ~> ~InLimiter(r)

\* one request rejected with the 429 error, one passed on without a tenant
\* context
C36_Witness ==
    /\ pc[1] = "done" /\ resp[1].status = 429 /\ loc[1].nexts = <<"next(error)">>
    /\ pc[2] = "done" /\ req[2].op # "none" /\ req[2].hdr = Undef
    /\ loc[2].nexts = <<"next()">>

\* the value stored under key k
Cached(k) == JsonParse(redis[k].val)

\* C37: every document in the cache is stored under the key of a tenant and
\* an id, and for every tenant and id with that key it has that tenantId and
\* that id; every search response in the cache is stored under the key of a
\* tenant and a search, and for every tenant and search with that key it
\* carries that tenant, query text, offset and limit and only hits made from
\* documents of that tenant. A cache hit answers a request with a value of the request's own tenant and
\* of its own id or search.
C37_EntryMatchesKey ==
    /\ [](\A k \in DOMAIN redis :
            /\ HasPrefix(DocPrefix, k) =>
                  /\ \E t \in Tenants, i \in DocIds : k = getDocumentKey(t, i)
                  /\ \A t \in Tenants, i \in DocIds :
                        k = getDocumentKey(t, i) =>
                            Cached(k).tenantId = t /\ Cached(k).id = i
            /\ HasPrefix(SearchPrefix, k) =>
                  /\ \E t \in Tenants, raw \in SearchInputs :
                        k = SearchKeyOf(t, SearchQuery(raw))
                  /\ \A t \in Tenants, raw \in SearchInputs :
                        k = SearchKeyOf(t, SearchQuery(raw)) =>
                            LET query == SearchQuery(raw) IN
                            /\ Cached(k).tenantId = t
                            /\ Cached(k).query = query.q
                            /\ Cached(k).offset = query.offset
                            /\ Cached(k).limit = query.limit
                            /\ Len(Cached(k).results) <= query.limit
                            /\ \A n \in 1..Len(Cached(k).results) :
                                  Cached(k).results[n].owner = t)
    /\ [][\A r \in Reqs :
            (pc'[r] = "done" /\ resp'[r].status = 200) =>
                /\ pc[r] = "d_cache_get" =>
                      /\ resp'[r].body.tenantId = TenantOf(r)
                      /\ resp'[r].body.id = req[r].id
                /\ pc[r] = "s_cache_get" =>
                      /\ resp'[r].body.tenantId = TenantOf(r)
                      /\ resp'[r].body.query = QueryOf(r).q
                      /\ resp'[r].body.offset = QueryOf(r).offset
                      /\ resp'[r].body.limit = QueryOf(r).limit
                      /\ \A n \in 1..Len(resp'[r].body.results) :
                            resp'[r].body.results[n].owner = TenantOf(r)]_vars

\* the same search of the two tenants cached under two keys, one response
\* with a hit and one without
C37_Witness ==
    \E raw \in SearchInputs :
        LET ka == SearchKeyOf(TA, SearchQuery(raw))
            kb == SearchKeyOf(TB, SearchQuery(raw))
        IN /\ ka \in DOMAIN redis /\ kb \in DOMAIN redis
           /\ Cached(ka).total = 0
           /\ Cached(kb).total = 1

-----------------------------------------------------------------------------
(* Searches, reads and writes of documents behind the one rate limiter,     *)
(* handled one after another, with healthy stores                           *)

MaxStartedShared == 3

NextShared ==
    \/ \E h \in Tenants, o \in WriteOps :
          started < MaxStartedShared /\ Idle /\ Start(1, h, o)
    \/ Step(1)
    \/ Tick(MaxNowSeq)

SpecShared == Init /\ [][NextShared]_vars

\* C38 as stated: with requests handled one after another and a healthy
\* store, a search, a document read or a document mutation passes the
\* limiter if and only if fewer than maxRequests requests of its tenant, to
\* either route, were admitted earlier in the window of its timestamp.
C38_SharedCounterAdmitsIff ==
    \A r \in Reqs :
        /\ "counter_set" \in work[r] =>
              Admitted(WindowOf(r)) <= config.maxRequests
        /\ (pc[r] = "done" /\ resp[r].status = 429) =>
              Admitted(WindowOf(r)) >= config.maxRequests

\* C38: with requests handled one after another and a healthy store, a
\* search, a document read or a document mutation whose counter read
\* completes inside the window of its timestamp passes the limiter only if
\* fewer than maxRequests requests of its tenant, to either route, were
\* admitted earlier in that window, and every such request is rejected only
\* if maxRequests of them were; every request that passes counts as one
\* admitted request of its tenant and window, whatever its route.
C38_SharedCounterPerWindow ==
    /\ [](\A r \in Reqs :
            (pc[r] = "done" /\ resp[r].status = 429) =>
                Admitted(WindowOf(r)) >= config.maxRequests)
    /\ [][\A r \in Reqs :
            /\ (pc[r] = "rl_get" /\ pc'[r] = "rl_set" /\ InWindow(r)) =>
                  Admitted(WindowOf(r)) < config.maxRequests
            /\ (pc[r] = "rl_get" /\ pc'[r] = "done") =>
                  /\ resp'[r].status = 429
                  /\ Admitted(WindowOf(r)) = config.maxRequests
            /\ (pc[r] = "rl_set" /\ pc'[r] # "rl_set") =>
                  Admitted(WindowOf(r))' = Admitted(WindowOf(r)) + 1]_vars

\* a search rejected in the first window, in which a document was stored
\* and one more request of the tenant was admitted
C38_Witness ==
    /\ pc[1] = "done" /\ resp[1].status = 429
    /\ req[1].op = "search"
    /\ now < config.windowMs
    /\ index # <<>>
    /\ Admitted(WindowOf(1)) = config.maxRequests

-----------------------------------------------------------------------------
(* Documents created with and without an id of their own, each read back    *)
(* under the id its creation returned                                       *)

MaxStartedCreate == 4

\* the two versions as the caller sends them with an id and without one
CreateDocs == DocVersions \cup {[d EXCEPT !.id = Undef] : d \in DocVersions}

CreateOps ==
       {[op |-> "post", id |-> Undef, doc |-> d, sq |-> Null] : d \in CreateDocs}
  \cup {[op |-> "search", id |-> Undef, doc |-> Null, sq |-> NoParams],
        [op |-> "delete", id |-> <<"c">>, doc |-> Null, sq |-> Null]}

\* the id of the 201 response
ReturnedId(r) == resp[r].body.id

Created(r) == pc[r] = "done" /\ req[r].op = "post" /\ resp[r].status = 201

\* GET /documents/<id of the 201 response>, right after that response
ReadBack ==
    /\ Created(1)
    /\ Start(1, TenantOf(1),
             [op |-> "get", id |-> ReturnedId(1), doc |-> Null, sq |-> Null])

NextCreate ==
    \/ \E o \in CreateOps : started < MaxStartedCreate /\ Idle /\ Start(1, TA, o)
    \/ started < MaxStartedCreate /\ ReadBack
    \/ Step(1)
    \/ Tick(MaxNowSeq)

SpecCreate ==
    InitWith(DocConfig) /\ arg = Null /\ ret = Null /\ [][NextCreate]_vars

\* C39: once a document has been created (201), the index holds it under
\* the id of the response, with the title and the content of the request,
\* also when the request carried no id; and the read of that id issued right
\* after the response is answered 200 with a document of that id.
C39_ReturnedIdFindsDocument ==
    /\ Created(1) =>
          LET i == indexId(TenantOf(1), ReturnedId(1)) IN
          /\ i \in DOMAIN index
          /\ index[i].doc_id = ReturnedId(1)
          /\ index[i].title = req[1].doc.title
          /\ index[i].content = req[1].doc.content
    /\ (pc[1] = "done" /\ req[1].op = "get") =>
          /\ resp[1].status = 200
          /\ resp[1].body.id = req[1].id
          /\ resp[1].body.tenantId = TenantOf(1)

====
